---- MODULE Spec2Model ----
(***************************************************************************)
(* A model of the wemp channel plugin (WeChat official-account webhook):   *)
(* the pairing-API rate limiter, the pairing API, the pairing stores, the  *)
(* webhook request handler, message dedup and the inbound text debouncer.  *)
(***************************************************************************)
EXTENDS Integers, Sequences, FiniteSets, TLC

(***************************************************************************)
(* Bounds of the model.                                                    *)
(***************************************************************************)
\* the clock stops advancing here (ms)
MaxNow == 121000
\* calls of checkPairingApiRateLimit counted in the open windows of all addresses
\* together before the model stops calling
MaxCalls == 33
\* pairing API requests per window of the address "unknown" where one address
\* exhausts its budget
MaxOtherCalls == 2
\* pairing API requests per address and window where two requests are in flight
MaxApiCalls == 2
\* pairing codes the runtime ever issues
MaxIssued == 1
\* webhook requests of one run
MaxWhReqs == 2
\* items waiting in the debouncer at one time
MaxQueued == 3
\* the clock of the pairing stores stops advancing here (ms)
MaxPairNow == 600000
\* readResponseBytesWithLimit: the largest chunk reader.read() hands over, in bytes
MaxChunk == 3
\* readResponseBytesWithLimit: the reader.read() calls of one response
MaxReads == 4
\* readResponseBytesWithLimit: the largest Content-Length and body without a stream
MaxBody == 6
\* withFileLock: the clock stops here
MaxLockNow == 1100
\* the persisted stores: the mutations of one run
MaxMutations == 3
\* the longest string normalizeWebhookPath is applied to
MaxPathLen == 4
\* the registrations made on the webhook registry
MaxRegistrations == 3
\* "data" events delivered to one readRequestBody call
MaxBodyChunks == 3
\* body chunks one response delivers, and the last instant of the fetch clock
MaxFetchChunks == 2
MaxFetchNow == 30000
\* withFileLock: the pauses the clock makes in a row between two long steps
MaxPauses == 2

(***************************************************************************)
(* Program constants.                                                      *)
(***************************************************************************)
\* PAIRING_API_RATE_LIMIT.windowMs
RateWindowMs == 60000
\* withFileLock: the pause between two attempts, sleepSync(25)
LockSleepMs == 25
\* withFileLock: the smallest staleMs, Math.max(1_000, ...)
MinStaleMs == 1000
\* PAIRING_API_RATE_LIMIT.max
RateMax == 30
\* size of the bucket table above which expired buckets are swept
RateCleanupSize == 1000
\* Math.ceil((resetAt - now) / 1000): milliseconds per second
MsPerSec == 1000
\* the lifetime of a dedup key (ms)
MESSAGE_DEDUP_TIMEOUT_MS == 30000
\* how long a pending image can be attached: 5 * 60 * 1000 ms
PENDING_IMAGE_TIMEOUT == 300000
MAX_WEBHOOK_BODY_BYTES == 1048576
MAX_PAIRING_API_BODY_BYTES == 32768
DEFAULT_FETCH_TIMEOUT_MS == 10000
\* the lifetime of a pending pairing code: 5 * 60 * 1000 ms
CODE_EXPIRY_MS == 300000

\* remote addresses; "unknown" is what a request without socket address gets
IPs == {"10.0.0.1", "unknown"}
\* amounts by which the clock advances between events
TimeSteps == {20000, 60000, 60001}

NoBucket == [count |-> 0, resetAt |-> -1]

\* strings are sequences of characters
EmptyStr == <<>>
Whitespace == {" "}

\* the accounts registered on the pairing path, most recently registered first
ApiAccounts == <<"acc2", "acc1">>
\* the built-in fallback of getPairingApiToken ("wemp-pairing-token")
DefaultPairingToken == <<"w", "p">>
\* values of the environment variable WEMP_PAIRING_API_TOKEN (EmptyStr: unset)
EnvTokens == {EmptyStr, <<"s", "1">>}
\* the token field of a request body (EmptyStr: absent or empty)
ReqTokens == {EmptyStr, <<"s", "1">>, <<"s">>, <<"w", "p">>}
\* the code field of a request body (EmptyStr: absent or empty)
ReqCodes == {EmptyStr, <<" ">>, <<"a">>, <<"A", " ">>, <<"B">>}
\* pairing codes the approval command's store can hold
PairCodes == {<<"A">>, <<"B">>}
\* subjects accountId:openId
Subjects == {[accountId |-> "acc1", openId |-> "u1"], [accountId |-> "acc2", openId |-> "u2"]}
NoSubject == [accountId |-> "", openId |-> ""]
\* how reading the request body ends, and the fields of a body that is a JSON
\* object ("jsonNull": the body parses to null, and reading its token throws)
BodyKinds == {"json", "jsonNull", "notJson", "tooLarge", "readError"}
Bodies ==
  {[kind |-> k, token |-> EmptyStr, code |-> EmptyStr] : k \in BodyKinds \ {"json"}}
    \cup {[kind |-> "json", token |-> t, code |-> c] : t \in ReqTokens, c \in ReqCodes}
\* how a run of the approval command ends
CmdOutcomes == {"exit", "killed", "threw"}
\* request slots of the pairing API
ApiReqs == {1, 2}
\* the webhook requests, in arrival order
WhReqs == 1..MaxWhReqs
\* the accounts that can be registered on the webhook path
WhAccounts == {"acc1", "acc2"}
\* the order in which the accounts start and register
StartOrder == <<"acc1", "acc2">>
\* the runtimes setWechatMpRuntime can be given
Runtimes == {"full", "noSystem"}
\* accountId:openId of the senders
WhSubjects == {<<"acc1", "u1">>, <<"acc2", "u1">>}
\* how long the clock runs while an image is pending: to just before its expiry
\* and to the expiry
ImageSteps == {PENDING_IMAGE_TIMEOUT - 1, PENDING_IMAGE_TIMEOUT}

VARIABLES
  now,            \* Date.now()
  runtime,        \* the runtime set by setWechatMpRuntime: "null" before, then "full",
                  \* or "noSystem" for a runtime without system.runCommandWithTimeout
  pairingApiRate, \* Map<ip, {count, resetAt}>, NoBucket where the key is absent
  lastRate,       \* per address: the result of its last checkPairingApiRateLimit call
  winStart,       \* observer: per address, when its current fixed 60 s window began
  winCalls,       \* observer: per address, the calls made in that window
  envPairingToken,  \* process.env.WEMP_PAIRING_API_TOKEN (EmptyStr: unset)
  api,              \* per request slot of the pairing API: its position and response
  pendingApprovals, \* the approval command's store: code -> subject awaiting approval
  issuedCodes,      \* observer: the codes ever issued
  usedCodes,        \* observer: the codes the approval command has approved
  allowFrom,        \* the allow-list the approval command adds approved subjects to
  webhookTargets,   \* the targets registered on the webhook path, in registration order
  wh,               \* per webhook request: its position, response and handling
  immediateQ,       \* the setImmediate callbacks not yet run, oldest first
  processingMessages, \* Set<msgKey>
  dedupTimers,      \* the pending setTimeout callbacks that delete a msgKey
  pendingImages,    \* Map<accountId:openId, timestamp>, -1 where absent
  aiDisabledHintLastSentAt, \* Map<accountId:openId, time>, -1 where absent
  debounceMs,       \* what resolveInboundDebounceMs answers
  createDebouncer,  \* whether runtime.channel.debounce.createInboundDebouncer is a function
  inboundDebouncersByMs, \* the intervals for which a debouncer has been created
  debounceQ,        \* per buildKey: the items the debouncer holds, oldest first
  lastOp,           \* observer: the last debounce operation, its items and dispatches
  pairedUsersFile,  \* paired-users.json: the user keys it holds
  pendingCodesFile, \* pending-codes.json: code -> {accountId, openId, createdAt}
  optOut,           \* the opt-out overlay: the subjects forced to unpaired
  prResult,         \* observer: what the last pairing-store operation returned
  media,            \* the image download or upload in progress: its position, the
                    \* source it was given, what dns.lookup answered, the fetch calls
                    \* it has made and its result
  lockMarker,       \* the marker file `${filePath}.lock`: whether it exists, its mtime
                    \* and which process created it (0: a process that is gone)
  locker,           \* per process: its position in withFileLock and what it has done
  storeKind,        \* which persisted store the processes work on ("none": not chosen)
  storeFile,        \* the store's file: missing, whole with a document, or cut short
  storeCache,       \* per process: the module's cached document, if it has loaded one
  storeWriter,      \* per process: the mutation in progress and the document it writes
  storeLog,         \* observer: the acknowledged mutations applied in order, their
                    \* number, and what the last read of the file found
  jsonFile,         \* a JsonStore's file: whether it exists and its text
  jsonCache,        \* per process: the JsonStore's cache (JSON null: none)
  jsonLog,          \* observer: the last document written and by whom, and the last
                    \* read: by whom, through which loader, what it loaded and answered
  regKind,          \* which module's registry the process uses ("none": not loaded)
  registry,         \* webhookTargets: Map<path, targets>, <<>> where the key is absent
  registered,       \* the unregister functions handed out, by registration number:
                    \* the key each closes over, and whether it was never called
  lastRequest,      \* observer: the last request routed: its inputs, the response,
                    \* the candidates tried and what handleMessage was handed
  lastUnregister,   \* observer: the last unregister call and the registry before it
  normalized,       \* observer: a string, normalizeWebhookPath of it, and of that
  reading,          \* one readResponseBytesWithLimit call: its position, arguments,
                    \* the chunks it holds, the running total and what it returned
  bodyIn,           \* one readRequestBody call and the handler awaiting it
  fetching,         \* one outbound fetch: its position, its timer and its start
  inflight,         \* per process: another request of its event loop, "none",
                    \* "ready" (its callback is queued) or "ran"
  ipCheck,          \* observer: an address given to isPrivateIp and the answer
  hintCalls,        \* the calls of maybeSendAiDisabledHint in flight
  hintSends,        \* observer: the hints handed to sendCustomMessage, each with
                    \* its subject and the time of the call
  storeFail,        \* observer: the last store mutation whose file write threw
  dl                \* one download of a remote image: the addresses validated
                    \* and the addresses fetch connected to

rateVars == <<pairingApiRate, lastRate, winStart, winCalls>>
apiVars == <<envPairingToken, api, pendingApprovals, issuedCodes, usedCodes, allowFrom>>
whVars == <<webhookTargets, wh, immediateQ, processingMessages, dedupTimers,
            pendingImages, aiDisabledHintLastSentAt>>
dbVars == <<debounceMs, createDebouncer, inboundDebouncersByMs, debounceQ, lastOp>>
prVars == <<pairedUsersFile, pendingCodesFile, optOut, prResult>>
mediaVars == <<media, reading>>
lockVars == <<lockMarker, locker>>
storeVars == <<storeKind, storeFile, storeCache, storeWriter, storeLog>>
jsonVars == <<jsonFile, jsonCache, jsonLog>>
regVars == <<regKind, registry, registered, lastRequest, lastUnregister, normalized>>
ioVars == <<bodyIn, fetching, inflight>>
extVars == <<ipCheck, hintCalls, hintSends, storeFail, dl>>
vars == <<now, runtime, rateVars, apiVars, whVars, dbVars, prVars, mediaVars, lockVars,
          storeVars, jsonVars, regVars, ioVars, extVars>>
\* what the actions of one component leave alone
restOfApi ==
  <<whVars, dbVars, prVars, mediaVars, lockVars, storeVars, jsonVars, regVars, ioVars, extVars>>
restOfWh ==
  <<rateVars, apiVars, dbVars, prVars, mediaVars, lockVars, storeVars, jsonVars, regVars, ioVars, extVars>>
restOfDb ==
  <<rateVars, apiVars, whVars, prVars, mediaVars, lockVars, storeVars, jsonVars, regVars, ioVars, extVars>>
restOfPairing ==
  <<rateVars, apiVars, whVars, dbVars, mediaVars, lockVars, storeVars, jsonVars, regVars, ioVars, extVars>>
restOfMedia ==
  <<rateVars, apiVars, whVars, dbVars, prVars, lockVars, storeVars, jsonVars, regVars, ioVars, extVars>>
restOfLock ==
  <<runtime, rateVars, apiVars, whVars, dbVars, prVars, mediaVars, storeVars, jsonVars, regVars, ioVars, extVars>>
restOfStore ==
  <<rateVars, apiVars, whVars, dbVars, prVars, mediaVars, lockVars, jsonVars, regVars, ioVars, extVars>>
restOfJson ==
  <<rateVars, apiVars, whVars, dbVars, prVars, mediaVars, lockVars, storeVars, regVars, ioVars, extVars>>
restOfRegistry ==
  <<rateVars, apiVars, whVars, dbVars, prVars, mediaVars, lockVars, storeVars, jsonVars,
    ioVars, extVars>>
restOfExt ==
  <<rateVars, apiVars, whVars, dbVars, prVars, mediaVars, lockVars, storeVars, jsonVars,
    regVars, ioVars>>
restOfIo ==
  <<rateVars, apiVars, whVars, dbVars, prVars, mediaVars, lockVars, storeVars, jsonVars,
    regVars, extVars>>

----------------------------------------------------------------------------
(***************************************************************************)
(* checkPairingApiRateLimit                                                *)
(***************************************************************************)
CeilDiv(a, b) == (a + b - 1) \div b

Max2(a, b) == IF a >= b THEN a ELSE b

RateSize(rate) == Cardinality({ip \in DOMAIN rate : rate[ip] # NoBucket})

\* the lazy sweep: only when the table holds more than RateCleanupSize keys
RateSweep(rate, t) ==
  IF RateSize(rate) > RateCleanupSize
  THEN [ip \in DOMAIN rate |->
          IF rate[ip] # NoBucket /\ t > rate[ip].resetAt THEN NoBucket ELSE rate[ip]]
  ELSE rate

\* mutant: a sliding window, every counted call moves resetAt
checkPairingApiRateLimitSliding(rate, ip, t) ==
  LET swept == RateSweep(rate, t)
      current == swept[ip]
  IN IF current = NoBucket \/ t > current.resetAt
     THEN [rate |-> [swept EXCEPT ![ip] = [count |-> 1, resetAt |-> t + RateWindowMs]],
           ok |-> TRUE, retryAfterSec |-> 0]
     ELSE LET cnt == current.count + 1
              bumped == [swept EXCEPT ![ip] = [count |-> cnt, resetAt |-> t + RateWindowMs]]
          IN IF cnt > RateMax
             THEN [rate |-> bumped, ok |-> FALSE,
                   retryAfterSec |-> Max2(1, CeilDiv(current.resetAt - t, MsPerSec))]
             ELSE [rate |-> bumped, ok |-> TRUE, retryAfterSec |-> 0]

\* mutant: the limit compared with >= (the 30th call is refused)
checkPairingApiRateLimitOffByOne(rate, ip, t) ==
  LET swept == RateSweep(rate, t)
      current == swept[ip]
  IN IF current = NoBucket \/ t > current.resetAt
     THEN [rate |-> [swept EXCEPT ![ip] = [count |-> 1, resetAt |-> t + RateWindowMs]],
           ok |-> TRUE, retryAfterSec |-> 0]
     ELSE LET cnt == current.count + 1
              bumped == [swept EXCEPT ![ip].count = cnt]
          IN IF cnt >= RateMax
             THEN [rate |-> bumped, ok |-> FALSE,
                   retryAfterSec |-> Max2(1, CeilDiv(current.resetAt - t, MsPerSec))]
             ELSE [rate |-> bumped, ok |-> TRUE, retryAfterSec |-> 0]

\* the new table and the result of one call for address ip at time t
checkPairingApiRateLimit(rate, ip, t) ==
  LET swept == RateSweep(rate, t)
      current == swept[ip]
  IN IF current = NoBucket \/ t > current.resetAt
     THEN [rate |-> [swept EXCEPT ![ip] = [count |-> 1, resetAt |-> t + RateWindowMs]],
           ok |-> TRUE, retryAfterSec |-> 0]
     ELSE LET cnt == current.count + 1
              bumped == [swept EXCEPT ![ip].count = cnt]
          IN IF cnt > RateMax
             THEN [rate |-> bumped, ok |-> FALSE,
                   retryAfterSec |-> Max2(1, CeilDiv(current.resetAt - t, MsPerSec))]
             ELSE [rate |-> bumped, ok |-> TRUE, retryAfterSec |-> 0]

\* observer of the fixed window of section 4.6: a call later than 60 s after the
\* window's first call opens a new window, every other call counts in the current one
ObserveWindow(ip) ==
  IF winCalls[ip] = 0 \/ now > winStart[ip] + RateWindowMs
  THEN /\ winStart' = [winStart EXCEPT ![ip] = now]
       /\ winCalls' = [winCalls EXCEPT ![ip] = 1]
  ELSE /\ winCalls' = [winCalls EXCEPT ![ip] = @ + 1]
       /\ UNCHANGED winStart

----------------------------------------------------------------------------
(***************************************************************************)
(* Strings                                                                 *)
(***************************************************************************)
RECURSIVE TrimStart(_)
TrimStart(s) ==
  IF s # EmptyStr /\ Head(s) \in Whitespace THEN TrimStart(Tail(s)) ELSE s

RECURSIVE TrimEnd(_)
TrimEnd(s) ==
  IF s # EmptyStr /\ s[Len(s)] \in Whitespace THEN TrimEnd(SubSeq(s, 1, Len(s) - 1)) ELSE s

\* String.prototype.trim
Trim(s) == TrimEnd(TrimStart(s))

UpperChar(c) == CASE c = "a" -> "A" [] c = "b" -> "B" [] OTHER -> c

\* String.prototype.toUpperCase
ToUpperCase(s) == [i \in 1..Len(s) |-> UpperChar(s[i])]

(***************************************************************************)
(* The pairing API: token lookup                                           *)
(***************************************************************************)
\* Buffer.alloc(n) with s copied in: zero-filled to n bytes
PadTo(s, n) == [i \in 1..n |-> IF i <= Len(s) THEN s[i] ELSE "NUL"]

timingSafeEqualString(a, b) ==
  LET maxLen == Max2(Len(a), Len(b))
  IN Len(a) = Len(b) /\ PadTo(a, maxLen) = PadTo(b, maxLen)

\* process.env.WEMP_PAIRING_API_TOKEN || "wemp-pairing-token"; the argument the
\* callers pass is ignored
getPairingApiToken ==
  IF envPairingToken # EmptyStr THEN envPairingToken ELSE DefaultPairingToken

RECURSIVE FindFrom(_, _, _, _)
FindFrom(accounts, token, i, any) ==
  IF i > Len(accounts)
  THEN [account |-> "none", anyConfigured |-> any]
  ELSE LET expectedToken == getPairingApiToken
       IN IF expectedToken = EmptyStr
          THEN FindFrom(accounts, token, i + 1, any)
          ELSE IF timingSafeEqualString(token, expectedToken)
               THEN [account |-> accounts[i], anyConfigured |-> TRUE]
               ELSE FindFrom(accounts, token, i + 1, TRUE)

\* mutant: the first account with a token is taken without comparing
findAccountByTokenNoCompare(accounts, token) ==
  IF getPairingApiToken = EmptyStr
  THEN [account |-> "none", anyConfigured |-> FALSE]
  ELSE [account |-> accounts[1], anyConfigured |-> TRUE]

findAccountByToken(accounts, token) == FindFrom(accounts, token, 1, FALSE)

\* accounts.some((a) => Boolean(getPairingApiToken(a.accountId)))
AnyConfigured(accounts) ==
  \E i \in 1..Len(accounts) : getPairingApiToken # EmptyStr

\* the id the approval command prints for a subject: accountId:openId
SubjectId(subj) == <<subj.accountId, ":", subj.openId>>

parseSubjectId(id) ==
  IF Len(id) = 3 /\ id[2] = ":"
  THEN [accountId |-> id[1], openId |-> id[3]]
  ELSE NoSubject

----------------------------------------------------------------------------
InitRate ==
  /\ now = 0
  /\ runtime = "null"
  /\ pairingApiRate = [ip \in IPs |-> NoBucket]
  /\ lastRate = [ip \in IPs |-> [ok |-> TRUE, retryAfterSec |-> 0]]
  /\ winStart = [ip \in IPs |-> 0]
  /\ winCalls = [ip \in IPs |-> 0]

\* a request slot: pc is the handler's position; status and retryAfterHdr are the
\* response; the other fields observe what the handler did for the request
IdleApi ==
  [pc |-> "idle", status |-> 0, retryAfterHdr |-> 0, nth |-> 0,
   rateOk |-> TRUE, rateRetry |-> 0, bodyRead |-> FALSE, jsonOk |-> FALSE,
   tokenGiven |-> FALSE, tokenIsExpected |-> FALSE, tokenCompared |-> FALSE,
   matched |-> "none", code |-> EmptyStr, ranCmd |-> FALSE, wasPending |-> FALSE,
   wasUsed |-> FALSE, cmdEnded |-> "", boundTo |-> NoSubject, replied |-> NoSubject]

InitApi ==
  /\ envPairingToken = EmptyStr
  /\ api = [r \in ApiReqs |-> IdleApi]
  /\ pendingApprovals = [c \in PairCodes |-> NoSubject]
  /\ issuedCodes = {}
  /\ usedCodes = {}
  /\ allowFrom = {}

Reverse(s) == [i \in 1..Len(s) |-> s[Len(s) + 1 - i]]

\* how processWechatMessage ends for one candidate account
CryptoOutcomes == {"ok", "authFailed", "malformed"}

\* response bodies.  ErrorTextRejected stands for the literal
\* "验证失败或消息解析失败" and ErrorTextVerify for "验证失败"
ErrorTextRejected == "verify failed or message parse failed"
ErrorTextVerify == "verify failed"

\* String(errorText).includes("验证失败")
IncludesVerifyFailed(text) == text \in {ErrorTextRejected, ErrorTextVerify}

NoMsg == [msgType |-> "", fromUserName |-> "", msgId |-> "", createTime |-> "",
          event |-> "", payload |-> EmptyStr]

\* messages processWechatMessage can yield; payload is content, picUrl or
\* recognition, msgId "" an absent msgId
WhMsgs ==
  {[msgType |-> "text", fromUserName |-> "u1", msgId |-> i, createTime |-> "100",
    event |-> "", payload |-> p] : i \in {"", "m1"}, p \in {EmptyStr, <<"a">>}}
  \cup {[msgType |-> t, fromUserName |-> "u1", msgId |-> "m1", createTime |-> "100",
         event |-> "", payload |-> <<"a">>] : t \in {"image", "voice", "video"}}
  \cup {[msgType |-> "event", fromUserName |-> "u1", msgId |-> "", createTime |-> "100",
         event |-> e, payload |-> EmptyStr] : e \in {"subscribe", "unsubscribe", "CLICK"}}

\* how reading and decoding the body of a POST ends: reading fails, or every
\* candidate gets an outcome of processWechatMessage and, where one accepts, msg is
\* the message it yields
WhBodies ==
  {[read |-> rd, outcome |-> [a \in WhAccounts |-> "authFailed"], msg |-> NoMsg] :
     rd \in {"tooLarge", "error"}}
  \cup {[read |-> "ok", outcome |-> o, msg |-> NoMsg] :
          o \in [WhAccounts -> CryptoOutcomes \ {"ok"}]}
  \cup {[read |-> "ok", outcome |-> o, msg |-> m] :
          o \in {f \in [WhAccounts -> CryptoOutcomes] : \E a \in WhAccounts : f[a] = "ok"},
          m \in WhMsgs}

\* `${account.accountId}:${openId}:${msg.msgId || msg.createTime}`
msgKey(accountId, msg) ==
  <<accountId, msg.fromUserName, IF msg.msgId # "" THEN msg.msgId ELSE msg.createTime>>

NoKey == <<>>

\* a request: pc is its position, status/body/writes the response, handled the
\* value handleWechatMpWebhookRequest returns; attempts are the outcomes of
\* processWechatMessage for the candidates tried; the other fields observe what
\* handleMessage did for the request's message: attached says that the item it
\* handed to the dispatch carried a pending image, failed that its promise was
\* rejected, logged that the rejection was caught and logged, escaped that it
\* reached no handler
NewWh ==
  [pc |-> "new", method |-> "", status |-> 0, body |-> "", writes |-> 0,
   handled |-> FALSE, attempts |-> <<>>, account |-> "", msg |-> NoMsg,
   key |-> NoKey, sawTimer |-> FALSE, proceeded |-> FALSE, sends |-> 0,
   dispatched |-> FALSE, attached |-> FALSE, failed |-> FALSE, logged |-> FALSE,
   escaped |-> FALSE, aiState |-> "", downloaded |-> FALSE]

InitWh ==
  /\ webhookTargets = <<>>
  /\ wh = [r \in WhReqs |-> NewWh]
  /\ immediateQ = <<>>
  /\ processingMessages = {}
  /\ dedupTimers = {}
  /\ pendingImages = [s \in WhSubjects |-> -1]
  /\ aiDisabledHintLastSentAt = [s \in WhSubjects |-> -1]

(***************************************************************************)
(* The inbound text debouncer                                              *)
(***************************************************************************)
\* the items handleMessage hands to dispatchInboundTextWithOptionalDebounce; the
\* fields other than openId, text and imageFilePath come in two combinations
DbTexts == {<<"a">>, <<" ", "b", " ">>, <<"/", "x">>, <<" ", "/", "x">>, <<" ">>}
DbMetas ==
  {[messageId |-> "m1", timestamp |-> 100000, agentId |-> "main", paired |-> TRUE,
    cfg |-> "cfgA"],
   [messageId |-> "m2", timestamp |-> 101000, agentId |-> "wemp-cs", paired |-> FALSE,
    cfg |-> "cfgB"]}
DbItems ==
  {[account |-> "acc1", openId |-> o, text |-> t, messageId |-> m.messageId,
    timestamp |-> m.timestamp, agentId |-> m.agentId, paired |-> m.paired,
    cfg |-> m.cfg, imageFilePath |-> f] :
      o \in {"u1", "u2"}, t \in DbTexts, m \in DbMetas, f \in {"", "/tmp/img"}}
\* what runtime.channel.debounce.resolveInboundDebounceMs answers (0 also stands
\* for a runtime without debounce support)
DebounceMsValues == {0, 2000}

\* buildKey: `${x.account.accountId}:${x.openId}`
buildKey(x) == <<x.account, x.openId>>
DbKeys == {buildKey(x) : x \in DbItems}

\* mutant: a slash command is debounced like any other text
shouldDebounceInboundTextNoSlash(text, imageFilePath) ==
  IF imageFilePath # "" THEN FALSE
  ELSE Trim(text) # EmptyStr

shouldDebounceInboundText(text, imageFilePath) ==
  IF imageFilePath # "" THEN FALSE
  ELSE LET trimmed == Trim(text)
       IN IF trimmed = EmptyStr THEN FALSE
          ELSE IF Head(trimmed) = "/" THEN FALSE
          ELSE TRUE

\* Array.prototype.join
RECURSIVE Join(_, _)
Join(strs, sep) ==
  IF strs = <<>> THEN EmptyStr
  ELSE IF Len(strs) = 1 THEN strs[1]
  ELSE strs[1] \o sep \o Join(Tail(strs), sep)

\* the arguments of dispatchWempMessage
dispatchInboundTextNow(item) ==
  [account |-> item.account, openId |-> item.openId, text |-> item.text,
   messageId |-> item.messageId, timestamp |-> item.timestamp, agentId |-> item.agentId,
   commandAuthorized |-> item.paired, cfg |-> item.cfg,
   imageFilePath |-> item.imageFilePath]

NonEmpty(str) == str # EmptyStr

\* mutant: the flush dispatches the last item as it is
onFlushLastOnly(items) ==
  IF items = <<>> THEN <<>>
  ELSE <<dispatchInboundTextNow(items[Len(items)])>>

\* onFlush: the dispatches one flush makes
onFlush(items) ==
  IF items = <<>> THEN <<>>
  ELSE LET last == items[Len(items)]
           combinedText ==
             Join(SelectSeq([i \in 1..Len(items) |-> Trim(items[i].text)], NonEmpty),
                  <<"\n">>)
       IN <<dispatchInboundTextNow(
              [last EXCEPT !.text = IF combinedText # EmptyStr THEN combinedText
                                    ELSE last.text])>>

InitDb ==
  /\ debounceMs = 0
  /\ createDebouncer = TRUE
  /\ inboundDebouncersByMs = {}
  /\ debounceQ = [k \in DbKeys |-> <<>>]
  /\ lastOp = [kind |-> "none", items |-> <<>>, dispatched |-> <<>>]

(***************************************************************************)
(* The pairing stores: paired-users.json and pending-codes.json            *)
(***************************************************************************)
\* subjects accountId:openId (getUserKey)
PrSubjects == {<<"acc1", "u1">>, <<"acc2", "u2">>}
\* the values crypto.randomInt can give a new pairing code
FileCodes == {"100000", "100001"}
NoPending == [accountId |-> "", openId |-> "", createdAt |-> -1]

\* loadPendingCodes: the file's codes that have not expired at time t
loadPendingCodes(file, t) ==
  [c \in FileCodes |->
     IF file[c] # NoPending /\ t - file[c].createdAt < CODE_EXPIRY_MS
     THEN file[c] ELSE NoPending]

\* loadPairedUsers: the keys of the paired-users file
loadPairedUsers == pairedUsersFile

\* isPaired(accountId, openId)
isPaired(accountId, openId) == <<accountId, openId>> \in loadPairedUsers

InitPairing ==
  /\ pairedUsersFile = {}
  /\ pendingCodesFile = [c \in FileCodes |-> NoPending]
  /\ optOut = {}
  /\ prResult = "none"

(***************************************************************************)
(* Image sources, hosts and addresses of the media API                     *)
(***************************************************************************)
\* an IP address as text: v is what net.isIP answers (0: not an address); a and b
\* are the first two decimal fields of an IPv4 address; text is an IPv6 address in
\* lower case up to an embedded dotted quad, whose first two fields are in tail
NoAddr == [v |-> 0, a |-> 0, b |-> 0, text |-> <<>>, tail |-> <<>>]
V4(a, b) == [NoAddr EXCEPT !.v = 4, !.a = a, !.b = b]
V6(text, tail) == [NoAddr EXCEPT !.v = 6, !.text = text, !.tail = tail]
Loopback4 == V4(127, 0)
Private10 == V4(10, 0)
LinkLocal4 == V4(169, 254)
Public4 == V4(8, 8)
Loopback6 == V6(<<":", ":", "1">>, <<>>)
Public6 == V6(<<"2", "0", "0", "1", ":", ":", "1">>, <<>>)
Mapped10 == V6(<<":", ":", "f", "f", "f", "f", ":">>, <<10, 0>>)
UniqueLocal6 == V6(<<"f", "d", "0", "0", ":", ":", "1">>, <<>>)
\* what dns.lookup(hostname, {all: true}) can answer for a domain name: up to two
\* of these addresses, or it throws
DnsAddrs == {Loopback4, Public4, Loopback6, Public6, Mapped10}
DnsAnswers ==
  {<<>>} \cup {<<x>> : x \in DnsAddrs} \cup {<<x, y>> : x \in DnsAddrs, y \in DnsAddrs}
\* the answer that stands for a lookup that throws (ENOTFOUND)
DnsThrows == <<[NoAddr EXCEPT !.text = <<"ENOTFOUND">>]>>

\* url.hostname: a domain name as its labels, an IPv4 literal in dotted decimal,
\* or an IPv6 literal, which URL serializes in square brackets
NameHost(labels) == [kind |-> "name", labels |-> labels, addr |-> NoAddr]
Ip4Host(addr) == [kind |-> "ip4", labels |-> <<>>, addr |-> addr]
Ip6Host(addr) == [kind |-> "ip6", labels |-> <<>>, addr |-> addr]
NoHost == NameHost(<<>>)
UrlHosts ==
  {NameHost(<<"localhost">>), NameHost(<<"a", "localhost">>),
   NameHost(<<"printer", "local">>), NameHost(<<"example", "com">>),
   Ip4Host(Loopback4), Ip4Host(Private10), Ip4Host(LinkLocal4), Ip4Host(Public4),
   Ip6Host(Loopback6), Ip6Host(UniqueLocal6)}
\* the image sources a caller passes: an absolute URL, a data: URL, a local file
\* path, or a text that is none of these
ImageSources ==
  {[form |-> "url", protocol |-> pr, host |-> h] :
      pr \in {"http:", "https:", "ftp:"}, h \in UrlHosts}
  \cup {[form |-> f, protocol |-> IF f = "data" THEN "data:" ELSE "", host |-> NoHost] :
           f \in {"data", "path", "other"}}
MediaOps == {"downloadImageToFile", "downloadImageAsDataUrl", "uploadTempMedia"}

isProbablyFilePath(value) == value.form = "path"

\* net.isIP of a hostname: the bracketed form of an IPv6 literal is not an address
isIP(host) == IF host.kind = "ip4" THEN 4 ELSE 0

StartsWith(str, prefix) ==
  Len(str) >= Len(prefix) /\ SubSeq(str, 1, Len(prefix)) = prefix

RECURSIVE isPrivateIp(_)
isPrivateIp(ip) ==
  IF ip.v = 4
  THEN \/ ip.a = 10
       \/ ip.a = 127
       \/ ip.a = 0
       \/ (ip.a = 169 /\ ip.b = 254)
       \/ (ip.a = 172 /\ ip.b >= 16 /\ ip.b <= 31)
       \/ (ip.a = 192 /\ ip.b = 168)
       \/ (ip.a = 100 /\ ip.b >= 64 /\ ip.b <= 127)
       \/ ip.a >= 224
  ELSE IF ip.v = 6
  THEN \/ (ip.tail = <<>> /\ ip.text \in {<<":", ":">>, <<":", ":", "1">>})
       \/ StartsWith(ip.text, <<"f", "e", "8", "0", ":">>)
       \/ StartsWith(ip.text, <<"f", "c">>)
       \/ StartsWith(ip.text, <<"f", "d">>)
       \/ /\ ip.text = <<":", ":", "f", "f", "f", "f", ":">> /\ ip.tail # <<>>
          /\ isPrivateIp(V4(ip.tail[1], ip.tail[2]))
  ELSE TRUE

\* whether validateExternalUrl has to ask dns.lookup about this source
NeedsDns(rawUrl) ==
  /\ rawUrl.form \in {"url", "data"}
  /\ rawUrl.protocol \in {"http:", "https:"}
  /\ rawUrl.host.labels # <<"localhost">>
  /\ ~(Len(rawUrl.host.labels) >= 2
        /\ rawUrl.host.labels[Len(rawUrl.host.labels)] \in {"localhost", "local"})
  /\ isIP(rawUrl.host) = 0

\* mutant: only the first resolved address is examined
validateExternalUrlFirstAddr(rawUrl, addrs) ==
  IF rawUrl.form \notin {"url", "data"} THEN "invalid URL"
  ELSE IF rawUrl.protocol \notin {"http:", "https:"} THEN "only http/https"
  ELSE LET labels == rawUrl.host.labels
       IN IF \/ labels = <<"localhost">>
             \/ (Len(labels) >= 2 /\ labels[Len(labels)] \in {"localhost", "local"})
          THEN "local domain"
          ELSE IF isIP(rawUrl.host) # 0
          THEN IF isPrivateIp(rawUrl.host.addr) THEN "private IP" ELSE "ok"
          ELSE IF addrs = DnsThrows THEN "lookup threw"
          ELSE IF Len(addrs) = 0 THEN "DNS failed"
          ELSE IF isPrivateIp(addrs[1]) THEN "resolves to private"
          ELSE "ok"

\* validateExternalUrl: "ok" where it returns the URL, else the error it throws;
\* addrs is what dns.lookup answers when it is asked
validateExternalUrl(rawUrl, addrs) ==
  IF rawUrl.form \notin {"url", "data"} THEN "invalid URL"
  ELSE IF rawUrl.protocol \notin {"http:", "https:"} THEN "only http/https"
  ELSE LET labels == rawUrl.host.labels
       IN IF \/ labels = <<"localhost">>
             \/ (Len(labels) >= 2 /\ labels[Len(labels)] \in {"localhost", "local"})
          THEN "local domain"
          ELSE IF isIP(rawUrl.host) # 0
          THEN IF isPrivateIp(rawUrl.host.addr) THEN "private IP" ELSE "ok"
          ELSE IF addrs = DnsThrows THEN "lookup threw"
          ELSE IF Len(addrs) = 0 THEN "DNS failed"
          ELSE IF \E i \in 1..Len(addrs) : isPrivateIp(addrs[i])
          THEN "resolves to private"
          ELSE "ok"

NoSource == [form |-> "", protocol |-> "", host |-> NoHost]
IdleMedia ==
  [pc |-> "idle", op |-> "", src |-> NoSource, asked |-> FALSE, addrs |-> <<>>,
   validated |-> "", fetched |-> <<>>, success |-> FALSE]
\* the byte limits callers pass (a few bytes stand for MAX_IMAGE_BYTES)
ByteLimits == {2, 4}
\* the Content-Length header: absent (or empty), not a finite number, or a count
NoHeader == [given |-> FALSE, finite |-> FALSE, n |-> 0]
ContentLengths ==
  {NoHeader, [given |-> TRUE, finite |-> FALSE, n |-> 0]}
  \cup {[given |-> TRUE, finite |-> TRUE, n |-> n] : n \in 0..MaxBody}
\* what one reader.read() resolves to: done, a value that is undefined, or a chunk
\* of so many bytes
ReadDone == [done |-> TRUE, defined |-> FALSE, bytes |-> 0]
ReadUndefined == [done |-> FALSE, defined |-> FALSE, bytes |-> 0]
ReadResults ==
  {ReadDone, ReadUndefined}
  \cup {[done |-> FALSE, defined |-> TRUE, bytes |-> n] : n \in 0..MaxChunk}

RECURSIVE SumSeq(_)
SumSeq(q) == IF q = <<>> THEN 0 ELSE Head(q) + SumSeq(Tail(q))

IdleRead ==
  [pc |-> "idle", maxBytes |-> 0, contentLength |-> NoHeader, hasBody |-> FALSE,
   reads |-> 0, chunks |-> <<>>, total |-> 0, cancelled |-> FALSE, out |-> -1]

InitMedia == media = IdleMedia /\ reading = IdleRead

(***************************************************************************)
(* withFileLock: the processes of one host that lock one file path         *)
(***************************************************************************)
LockProcs == {1, 2}
\* options.timeoutMs and options.staleMs as callers pass them
TimeoutOptions == {0, 25}
StaleOptions == {0, 1000}
\* the steps the clock makes: one pause, or past the staleness age
LockSteps == {LockSleepMs, MinStaleMs + 1}

NoMarker == [exists |-> FALSE, mtime |-> 0, owner |-> 0]
IdleLocker ==
  [pc |-> "idle", timeoutMs |-> 0, staleMs |-> MinStaleMs, startedAt |-> 0,
   checkedAt |-> 0, sawStale |-> FALSE, unlinked |-> FALSE, ranFn |-> FALSE,
   fnEnded |-> "", outcome |-> ""]
InitLock ==
  /\ lockMarker = NoMarker
  /\ locker = [p \in LockProcs |-> IdleLocker]

(***************************************************************************)
(* JSON documents, JSON.stringify(data, null, 2) and JSON.parse            *)
(***************************************************************************)
\* a JSON value: t is its type; b, n and s hold a boolean, an integer and a string
\* (as characters); items are an array's elements or an object's member values,
\* and keys an object's member names, in order
JNull == [t |-> "null", b |-> FALSE, n |-> 0, s |-> <<>>, items |-> <<>>, keys |-> <<>>]
JBool(b) == [JNull EXCEPT !.t = "bool", !.b = b]
JNum(n) == [JNull EXCEPT !.t = "num", !.n = n]
JStr(s) == [JNull EXCEPT !.t = "str", !.s = s]
JArr(items) == [JNull EXCEPT !.t = "arr", !.items = items]
JObj(keys, vals) == [JNull EXCEPT !.t = "obj", !.keys = keys, !.items = vals]

DQ == "\""
BS == "\\"
DigitChars == <<"0", "1", "2", "3", "4", "5", "6", "7", "8", "9">>

RECURSIVE Digits(_)
Digits(n) == IF n < 10 THEN <<DigitChars[n + 1]>> ELSE Digits(n \div 10) \o <<DigitChars[(n % 10) + 1]>>

\* the escapes JSON.stringify writes inside a string
RECURSIVE Escape(_)
Escape(s) ==
  IF s = <<>> THEN <<>>
  ELSE (IF Head(s) = DQ THEN <<BS, DQ>>
        ELSE IF Head(s) = BS THEN <<BS, BS>>
        ELSE IF Head(s) = "\n" THEN <<BS, "n">>
        ELSE <<Head(s)>>) \o Escape(Tail(s))

Quoted(s) == <<DQ>> \o Escape(s) \o <<DQ>>
Pad(n) == [i \in 1..n |-> " "]

\* mutant: array elements are written without the comma between them
RECURSIVE stringifyNoComma(_, _)
stringifyNoComma(d, ind) ==
  CASE d.t = "null" -> <<"n", "u", "l", "l">>
    [] d.t = "bool" -> IF d.b THEN <<"t", "r", "u", "e">> ELSE <<"f", "a", "l", "s", "e">>
    [] d.t = "num" -> IF d.n < 0 THEN <<"-">> \o Digits(0 - d.n) ELSE Digits(d.n)
    [] d.t = "str" -> Quoted(d.s)
    [] d.t = "arr" ->
         IF d.items = <<>> THEN <<"[", "]">>
         ELSE LET Elems[i \in 1..Len(d.items)] ==
                    (IF i = 1 THEN <<>> ELSE Elems[i - 1])
                    \o <<"\n">> \o Pad(ind + 2) \o stringifyNoComma(d.items[i], ind + 2)
              IN <<"[">> \o Elems[Len(d.items)] \o <<"\n">> \o Pad(ind) \o <<"]">>
    [] d.t = "obj" ->
         IF d.keys = <<>> THEN <<"{", "}">>
         ELSE LET Members[i \in 1..Len(d.keys)] ==
                    (IF i = 1 THEN <<>> ELSE Members[i - 1] \o <<",">>)
                    \o <<"\n">> \o Pad(ind + 2) \o Quoted(d.keys[i]) \o <<":", " ">>
                    \o stringifyNoComma(d.items[i], ind + 2)
              IN <<"{">> \o Members[Len(d.keys)] \o <<"\n">> \o Pad(ind) \o <<"}">>

\* JSON.stringify(data, null, 2) from the indentation ind on
RECURSIVE stringify(_, _)
stringify(d, ind) ==
  CASE d.t = "null" -> <<"n", "u", "l", "l">>
    [] d.t = "bool" -> IF d.b THEN <<"t", "r", "u", "e">> ELSE <<"f", "a", "l", "s", "e">>
    [] d.t = "num" -> IF d.n < 0 THEN <<"-">> \o Digits(0 - d.n) ELSE Digits(d.n)
    [] d.t = "str" -> Quoted(d.s)
    [] d.t = "arr" ->
         IF d.items = <<>> THEN <<"[", "]">>
         ELSE LET Elems[i \in 1..Len(d.items)] ==
                    (IF i = 1 THEN <<>> ELSE Elems[i - 1] \o <<",">>)
                    \o <<"\n">> \o Pad(ind + 2) \o stringify(d.items[i], ind + 2)
              IN <<"[">> \o Elems[Len(d.items)] \o <<"\n">> \o Pad(ind) \o <<"]">>
    [] d.t = "obj" ->
         IF d.keys = <<>> THEN <<"{", "}">>
         ELSE LET Members[i \in 1..Len(d.keys)] ==
                    (IF i = 1 THEN <<>> ELSE Members[i - 1] \o <<",">>)
                    \o <<"\n">> \o Pad(ind + 2) \o Quoted(d.keys[i]) \o <<":", " ">>
                    \o stringify(d.items[i], ind + 2)
              IN <<"{">> \o Members[Len(d.keys)] \o <<"\n">> \o Pad(ind) \o <<"}">>

\* what a parsing step gives: whether it succeeded, the value, and the position
\* after it
ParseFail == [ok |-> FALSE, val |-> JNull, next |-> 0]
Parsed(val, next) == [ok |-> TRUE, val |-> val, next |-> next]

At(text, i) == IF i >= 1 /\ i <= Len(text) THEN text[i] ELSE "EOF"

RECURSIVE SkipWs(_, _)
SkipWs(text, i) ==
  IF At(text, i) \in {" ", "\n", "\t", "\r"} THEN SkipWs(text, i + 1) ELSE i

Matches(text, i, word) ==
  i + Len(word) - 1 <= Len(text) /\ SubSeq(text, i, i + Len(word) - 1) = word

DigitValue(c) == CHOOSE v \in 0..9 : DigitChars[v + 1] = c
IsDigit(c) == \E v \in 0..9 : DigitChars[v + 1] = c

\* the digits from position i on, read as a number that continues acc
RECURSIVE ParseDigits(_, _, _)
ParseDigits(text, i, acc) ==
  IF IsDigit(At(text, i)) THEN ParseDigits(text, i + 1, acc * 10 + DigitValue(At(text, i)))
  ELSE Parsed(JNum(acc), i)

ParseNumber(text, i) ==
  LET neg == At(text, i) = "-"
      j == IF neg THEN i + 1 ELSE i
  IN IF ~IsDigit(At(text, j)) THEN ParseFail
     ELSE IF At(text, j) = "0" /\ IsDigit(At(text, j + 1)) THEN ParseFail
     ELSE LET r == ParseDigits(text, j, 0)
          IN IF neg THEN Parsed(JNum(0 - r.val.n), r.next) ELSE r

\* the characters of a string from position i (after the opening quote) on
RECURSIVE ParseChars(_, _, _)
ParseChars(text, i, acc) ==
  LET c == At(text, i)
  IN IF c = "EOF" \/ c = "\n" THEN ParseFail
     ELSE IF c = DQ THEN Parsed(JStr(acc), i + 1)
     ELSE IF c = BS
     THEN LET e == At(text, i + 1)
          IN IF e = DQ THEN ParseChars(text, i + 2, Append(acc, DQ))
             ELSE IF e = BS THEN ParseChars(text, i + 2, Append(acc, BS))
             ELSE IF e = "n" THEN ParseChars(text, i + 2, Append(acc, "\n"))
             ELSE ParseFail
     ELSE ParseChars(text, i + 1, Append(acc, c))

RECURSIVE ParseValue(_, _)
RECURSIVE ParseElements(_, _, _)
RECURSIVE ParseMembers(_, _, _, _)

\* the elements of an array after "[" or ",": acc holds those read so far
ParseElements(text, i, acc) ==
  LET v == ParseValue(text, SkipWs(text, i))
  IN IF ~v.ok THEN ParseFail
     ELSE LET j == SkipWs(text, v.next)
          IN IF At(text, j) = "," THEN ParseElements(text, j + 1, Append(acc, v.val))
             ELSE IF At(text, j) = "]" THEN Parsed(JArr(Append(acc, v.val)), j + 1)
             ELSE ParseFail

\* the members of an object after "{" or ","
ParseMembers(text, i, keys, vals) ==
  LET k == SkipWs(text, i)
  IN IF At(text, k) # DQ THEN ParseFail
     ELSE LET name == ParseChars(text, k + 1, <<>>)
          IN IF ~name.ok THEN ParseFail
             ELSE LET c == SkipWs(text, name.next)
                  IN IF At(text, c) # ":" THEN ParseFail
                     ELSE LET v == ParseValue(text, SkipWs(text, c + 1))
                          IN IF ~v.ok THEN ParseFail
                             ELSE LET j == SkipWs(text, v.next)
                                      ks == Append(keys, name.val.s)
                                      vs == Append(vals, v.val)
                                  IN IF At(text, j) = ","
                                     THEN ParseMembers(text, j + 1, ks, vs)
                                     ELSE IF At(text, j) = "}"
                                     THEN Parsed(JObj(ks, vs), j + 1)
                                     ELSE ParseFail

ParseValue(text, i) ==
  LET c == At(text, i)
  IN IF Matches(text, i, <<"n", "u", "l", "l">>) THEN Parsed(JNull, i + 4)
     ELSE IF Matches(text, i, <<"t", "r", "u", "e">>) THEN Parsed(JBool(TRUE), i + 4)
     ELSE IF Matches(text, i, <<"f", "a", "l", "s", "e">>) THEN Parsed(JBool(FALSE), i + 5)
     ELSE IF c = DQ THEN ParseChars(text, i + 1, <<>>)
     ELSE IF c = "-" \/ IsDigit(c) THEN ParseNumber(text, i)
     ELSE IF c = "["
     THEN IF At(text, SkipWs(text, i + 1)) = "]"
          THEN Parsed(JArr(<<>>), SkipWs(text, i + 1) + 1)
          ELSE ParseElements(text, i + 1, <<>>)
     ELSE IF c = "{"
     THEN IF At(text, SkipWs(text, i + 1)) = "}"
          THEN Parsed(JObj(<<>>, <<>>), SkipWs(text, i + 1) + 1)
          ELSE ParseMembers(text, i + 1, <<>>, <<>>)
     ELSE ParseFail

\* JSON.parse: ok is FALSE where it throws a SyntaxError
JsonParse(text) ==
  LET v == ParseValue(text, SkipWs(text, 1))
  IN IF v.ok /\ SkipWs(text, v.next) = Len(text) + 1 THEN v ELSE ParseFail

\* the value of a property access that finds nothing
JUndefined == [JNull EXCEPT !.t = "undefined"]
EmptyObject == JObj(<<>>, <<>>)

\* value[key] for a value that is not null or undefined
GetProp(value, key) ==
  IF value.t = "obj" /\ \E i \in 1..Len(value.keys) : value.keys[i] = key
  THEN value.items[CHOOSE i \in 1..Len(value.keys) : value.keys[i] = key]
  ELSE JUndefined

Nullish(value) == value.t \in {"null", "undefined"}
\* !value
Falsy(value) ==
  \/ Nullish(value)
  \/ (value.t = "bool" /\ ~value.b)
  \/ (value.t = "num" /\ value.n = 0)
  \/ (value.t = "str" /\ value.s = <<>>)

\* the documents the stores are given to write
UserKey1 == <<"a", ":", "u">>
AiOn == JObj(<<<<"e", "n", "a", "b", "l", "e", "d">>>>, <<JBool(TRUE)>>)
AiStates == JObj(<<UserKey1>>, <<AiOn>>)
MenuEntry == JObj(<<<<"p", "a", "y", "l", "o", "a", "d">>>>, <<JStr(<<"h", "i">>)>>)
MenuStore(version, accounts) ==
  JObj(<<<<"v", "e", "r", "s", "i", "o", "n">>, <<"a", "c", "c", "o", "u", "n", "t", "s">>>>,
       <<JNum(version), accounts>>)
MenuAccounts == JObj(<<<<"a">>>>, <<JObj(<<<<"i", "d">>>>, <<MenuEntry>>)>>)
JsonScalars ==
  {JNull, JBool(TRUE), JBool(FALSE), JNum(0), JNum(-7), JNum(120), JStr(<<>>),
   JStr(<<"a", DQ, BS, "\n", " ">>)}
JsonDocs ==
  JsonScalars
  \cup {JArr(<<>>), JArr(<<JNull>>), JArr(<<JNum(1), JStr(<<",">>)>>),
        JArr(<<JArr(<<>>), EmptyObject, JArr(<<JBool(TRUE), JNum(2)>>)>>)}
  \cup {EmptyObject, AiStates, MenuStore(1, MenuAccounts), MenuStore(2, MenuAccounts),
        JObj(<<<<"k", DQ>>, <<>>>>, <<JArr(<<JNum(10)>>), AiOn>>)}

\* a store file: absent, or its text
NoFile == [exists |-> FALSE, text |-> <<>>]
FileOf(text) == [exists |-> TRUE, text |-> text]
\* writeJsonFile's text for a document
JsonText(d) == stringify(d, 0) \o <<"\n">>
\* what may be found on disk besides what the store wrote: nothing, text that is
\* not JSON, and JSON of another version or shape
DamagedFiles ==
  {NoFile, FileOf(<<"{">>), FileOf(<<>>), FileOf(<<"[", "1", ",", "]">>)}
  \cup {FileOf(JsonText(d)) :
          d \in {JNull, JNum(5), JArr(<<>>), JStr(<<"x">>), MenuStore(2, MenuAccounts),
                 MenuStore(1, JNum(5)), JObj(<<UserKey1>>, <<JNull>>)}}

\* readJsonFile(filePath, defaultValue)
readJsonFile(file, defaultValue) ==
  IF ~file.exists THEN defaultValue
  ELSE LET r == JsonParse(file.text) IN IF r.ok THEN r.val ELSE defaultValue

\* loadStatesFromDisk of ai-assistant-state
loadStatesFromDisk(file) ==
  IF ~file.exists THEN EmptyObject
  ELSE LET r == JsonParse(file.text) IN IF r.ok THEN r.val ELSE EmptyObject

\* what the AI-assistant store holds for a subject: no entry, enabled, disabled
AiStored == {"none", "on", "off"}
\* the states document with that entry under the subject's key
AiDoc(stored) ==
  IF stored = "none" THEN EmptyObject
  ELSE JObj(<<UserKey1>>,
            <<JObj(<<<<"e", "n", "a", "b", "l", "e", "d">>>>, <<JBool(stored = "on")>>)>>)

\* mutant: a subject without stored state counts as enabled
isAiAssistantEnabledDefaultOn(states, userKey) ==
  IF Nullish(states) THEN [threw |-> TRUE, val |-> JUndefined]
  ELSE LET state == GetProp(states, userKey)
           enabled == IF Nullish(state) THEN JUndefined
                      ELSE GetProp(state, <<"e", "n", "a", "b", "l", "e", "d">>)
       IN [threw |-> FALSE, val |-> IF Nullish(enabled) THEN JBool(TRUE) ELSE enabled]

\* isAiAssistantEnabled over the loaded states: threw where states[...] is read
\* of null
isAiAssistantEnabled(states, userKey) ==
  IF Nullish(states) THEN [threw |-> TRUE, val |-> JUndefined]
  ELSE LET state == GetProp(states, userKey)
           enabled == IF Nullish(state) THEN JUndefined
                      ELSE GetProp(state, <<"e", "n", "a", "b", "l", "e", "d">>)
       IN [threw |-> FALSE, val |-> IF Nullish(enabled) THEN JBool(FALSE) ELSE enabled]

\* loadStoreFromDisk of menu-payloads
loadStoreFromDisk(file) ==
  IF ~file.exists THEN MenuStore(1, EmptyObject)
  ELSE LET r == JsonParse(file.text)
       IN IF ~r.ok \/ Nullish(r.val) THEN MenuStore(1, EmptyObject)
          ELSE LET version == GetProp(r.val, <<"v", "e", "r", "s", "i", "o", "n">>)
                   accounts == GetProp(r.val, <<"a", "c", "c", "o", "u", "n", "t", "s">>)
               IN IF version # JNum(1) \/ Falsy(accounts) THEN MenuStore(1, EmptyObject)
                  ELSE MenuStore(1, accounts)

\* getMenuPayload over the loaded store
getMenuPayload(store, accountId, id) ==
  LET accounts == GetProp(store, <<"a", "c", "c", "o", "u", "n", "t", "s">>)
      account == GetProp(accounts, accountId)
      entry == IF Nullish(account) THEN JUndefined ELSE GetProp(account, id)
      payload == IF Nullish(entry) THEN JUndefined
                 ELSE GetProp(entry, <<"p", "a", "y", "l", "o", "a", "d">>)
  IN [threw |-> FALSE, val |-> IF Nullish(payload) THEN JNull ELSE payload]

JsonProcs == {1, 2}
\* the loaders a read goes through
JsonLoaders == {"jsonStore", "aiState", "menuPayload"}
NoRead ==
  [by |-> 0, loader |-> "", fromDisk |-> FALSE, loaded |-> JUndefined,
   answer |-> JUndefined, threw |-> FALSE]
InitJson ==
  /\ jsonFile = NoFile
  /\ jsonCache = [p \in JsonProcs |-> JNull]
  /\ jsonLog = [written |-> JUndefined, writtenBy |-> 0, read |-> NoRead]

(***************************************************************************)
(* The webhook registry: paths, targets and the resolution of a request    *)
(***************************************************************************)
EndsWith(str, suffix) ==
  Len(str) >= Len(suffix) /\ SubSeq(str, Len(str) - Len(suffix) + 1, Len(str)) = suffix

\* normalizeWebhookPath(raw)
normalizeWebhookPath(raw) ==
  LET trimmed == Trim(raw)
      withSlash == IF StartsWith(trimmed, <<"/">>) THEN trimmed ELSE <<"/">> \o trimmed
  IN IF trimmed = EmptyStr THEN <<"/">>
     ELSE IF Len(withSlash) > 1 /\ EndsWith(withSlash, <<"/">>)
     THEN SubSeq(withSlash, 1, Len(withSlash) - 1)
     ELSE withSlash

\* the strings normalizeWebhookPath is applied to: every string of at most
\* MaxPathLen characters over PathChars
PathChars == {"/", "w", " "}
RawPaths == UNION {[1..n -> PathChars] : n \in 0..MaxPathLen}

\* the paths accounts register under (opts.path), and the URL pathnames of requests
RegPaths == {<<>>, <<"/", "w">>, <<"/", "w", "/">>}
ReqPaths ==
  {<<"/">>, <<"/", "w">>, <<"/", "w", "/">>, <<"/", "w", "/", "x">>, <<"/", "w", "x">>,
   <<"/", "x">>}
\* the keys the registry can hold: what part_002 registers under, and the raw
\* paths the Map of webhook-handler.ts is keyed by
RegKeys == RegPaths \cup {normalizeWebhookPath(p) : p \in RegPaths}
\* account and cfg of a registration; an account can be registered again with a
\* newer cfg
RegAccounts == {"acc1", "acc2"}
RegInputs ==
  {[account |-> "acc1", cfg |-> "cfg1"], [account |-> "acc2", cfg |-> "cfg1"],
   [account |-> "acc1", cfg |-> "cfg2"]}
\* which module holds the registry: part_002 keeps a list of targets per normalized
\* path, webhook-handler.ts one target per path
RegKinds == {"list", "single"}
\* the value of the echostr query parameter (EmptyStr: absent)
Echostrs == {EmptyStr, <<"e">>}

\* resolveTargetsForPath(pathname) over the Map reg, whose absent keys hold <<>>
resolveTargetsForPath(reg, pathname) ==
  LET matching == {key \in DOMAIN reg :
                     /\ reg[key] # <<>>
                     /\ (pathname = key \/ StartsWith(pathname, key \o <<"/">>))}
  IN IF pathname \in DOMAIN reg /\ reg[pathname] # <<>>
     THEN [found |-> TRUE, key |-> pathname, targets |-> reg[pathname]]
     ELSE IF matching = {} THEN [found |-> FALSE, key |-> EmptyStr, targets |-> <<>>]
     ELSE LET bestKey == CHOOSE key \in matching :
                           \A other \in matching : Len(other) <= Len(key)
          IN [found |-> TRUE, key |-> bestKey, targets |-> reg[bestKey]]

\* s without the elements for which Drop holds, in their order
RECURSIVE FilterOut(_, _)
FilterOut(s, id) ==
  IF s = <<>> THEN <<>>
  ELSE IF Head(s).id = id THEN FilterOut(Tail(s), id)
  ELSE <<Head(s)>> \o FilterOut(Tail(s), id)

\* mutant: the candidates are tried oldest registration first
FirstVerifiedOldest(targets, verifies, i) ==
  LET verifying == {j \in i..Len(targets) : verifies[targets[j].account]}
  IN IF verifying = {} THEN 0
     ELSE CHOOSE j \in verifying : \A k \in verifying : k <= j

\* the loops of handleRequest over the candidates: the first that verifies
RECURSIVE FirstVerified(_, _, _)
FirstVerified(targets, verifies, i) ==
  IF i > Len(targets) THEN 0
  ELSE IF verifies[targets[i].account] THEN i
  ELSE FirstVerified(targets, verifies, i + 1)

NoTarget == [id |-> 0, account |-> "", cfg |-> ""]
NoRequest ==
  [pathname |-> EmptyStr, method |-> "", verifies |-> [a \in RegAccounts |-> FALSE],
   echostr |-> EmptyStr, handled |-> FALSE, status |-> 0, body |-> EmptyStr,
   key |-> EmptyStr, tried |-> <<>>, selected |-> NoTarget, handedAccount |-> "", handedCfg |-> ""]
NoUnregister == [id |-> 0, again |-> FALSE, before |-> <<>>]
InitRegistry ==
  /\ regKind = "none"
  /\ registry = [key \in RegKeys |-> <<>>]
  /\ registered = <<>>
  /\ lastRequest = NoRequest
  /\ lastUnregister = NoUnregister
  /\ normalized = [raw |-> EmptyStr, once |-> <<"/">>, twice |-> <<"/">>]

(***************************************************************************)
(* The persisted stores and the processes that share their files           *)
(***************************************************************************)
StoreProcs == {1, 2}
\* ai-assistant-state.json, menu-payloads.json, a JsonStore file, paired-users.json
StoreKinds == {"aiState", "menuPayload", "jsonStore", "pairedUsers"}
\* the stores whose module keeps the loaded document in a variable
CachedKinds == {"aiState", "menuPayload", "jsonStore"}
\* the stores written through a temp file and rename
RenamedKinds == {"aiState", "menuPayload", "jsonStore"}
\* a document: per key (a user key, or a payload id) its entry
StoreKeys == {"k1", "k2"}
StoreVals == {"on", "off"}
EmptyDoc == [k \in StoreKeys |-> "absent"]

MissingFile == [state |-> "missing", doc |-> EmptyDoc]
WholeFile(doc) == [state |-> "whole", doc |-> doc]
\* a file that fs.writeFileSync has truncated and not yet filled
CutFile == [state |-> "cut", doc |-> EmptyDoc]

\* loadStatesFromDisk, loadStoreFromDisk, readJsonFile, loadPairedUsers: the
\* document of a whole file, and the empty default when the file is missing or
\* JSON.parse throws
loadFromDisk(file) == IF file.state = "whole" THEN file.doc ELSE EmptyDoc

NoCache == [loaded |-> FALSE, doc |-> EmptyDoc]
\* prev: the entry as the mutator found it
IdleWriter == [pc |-> "idle", doc |-> EmptyDoc, key |-> "", val |-> "", prev |-> ""]
InitStore ==
  /\ storeKind = "none"
  /\ storeFile = MissingFile
  /\ storeCache = [p \in StoreProcs |-> NoCache]
  /\ storeWriter = [p \in StoreProcs |-> IdleWriter]
  /\ storeLog = [expected |-> EmptyDoc, count |-> 0, lastRead |-> "none"]

\* readRequestBody before it is called; the handler that awaits it
IdleBody ==
  [pc |-> "idle", endpoint |-> "none", maxBytes |-> 0, total |-> 0, kept |-> 0,
   events |-> 0, open |-> FALSE, outcome |-> "pending", resolvedLen |-> 0,
   status |-> 0, processed |-> FALSE]

\* an outbound fetch before it is started
IdleFetch ==
  [pc |-> "idle", via |-> "none", timeoutMs |-> 0, startedAt |-> 0,
   timer |-> FALSE, chunks |-> 0]

InitIo ==
  /\ bodyIn = IdleBody
  /\ fetching = IdleFetch
  /\ inflight = [p \in LockProcs |-> "none"]

\* the calls of maybeSendAiDisabledHint that can be in flight at once
HintCalls == {1, 2}
IdleHint == [pc |-> "idle", subject |-> <<>>, at |-> 0]
NoStoreFail == [p |-> 0, key |-> "", val |-> "", prev |-> "", at |-> 0]
\* a download before it starts: accepted are the addresses validateExternalUrl
\* examined and let pass, contacted the addresses fetch connected to
IdleDl ==
  [pc |-> "idle", src |-> NoSource, host |-> NoHost, accepted |-> {},
   contacted |-> {}, hops |-> 0, success |-> FALSE]
NoIpCheck == [asked |-> FALSE, ip |-> NoAddr, embedded |-> NoAddr, answer |-> FALSE]

InitExt ==
  /\ ipCheck = NoIpCheck
  /\ hintCalls = [c \in HintCalls |-> IdleHint]
  /\ hintSends = <<>>
  /\ storeFail = NoStoreFail
  /\ dl = IdleDl

Init ==
  /\ InitRate /\ InitApi /\ InitWh /\ InitDb /\ InitPairing /\ InitMedia /\ InitLock
  /\ InitStore /\ InitJson /\ InitRegistry /\ InitIo /\ InitExt

\* setWechatMpRuntime(r)
setWechatMpRuntime(r) ==
  /\ runtime' = r
  /\ UNCHANGED <<now, rateVars, apiVars, whVars, dbVars, prVars>>
  /\ UNCHANGED <<mediaVars, lockVars, storeVars, jsonVars, regVars, ioVars, extVars>>

\* the environment variable WEMP_PAIRING_API_TOKEN is set or unset
EnvSetToken(t) ==
  /\ envPairingToken # t
  /\ envPairingToken' = t
  /\ UNCHANGED <<now, runtime, rateVars, api, pendingApprovals, issuedCodes, usedCodes,
                 allowFrom, whVars, dbVars, prVars>>
  /\ UNCHANGED <<mediaVars, lockVars, storeVars, jsonVars, regVars, ioVars, extVars>>

\* registerWechatMpWebhookTarget for the webhook path
registerWechatMpWebhookTarget(account) ==
  /\ webhookTargets' = Append(webhookTargets, account)
  /\ UNCHANGED <<wh, immediateQ, processingMessages, dedupTimers, pendingImages,
                 aiDisabledHintLastSentAt>>
  /\ UNCHANGED <<now, runtime, rateVars, apiVars, dbVars, prVars>>
  /\ UNCHANGED <<mediaVars, lockVars, storeVars, jsonVars, regVars, ioVars, extVars>>

\* time passes
Advance(d) ==
  /\ now' = now + d
  /\ UNCHANGED <<runtime, rateVars, apiVars, whVars, dbVars, prVars>>
  /\ UNCHANGED <<mediaVars, lockVars, storeVars, jsonVars, regVars, ioVars, extVars>>

Tick == \E d \in TimeSteps : now + d <= MaxNow /\ Advance(d)

\* one direct call of the limiter for address ip
OpenCalls == winCalls["10.0.0.1"] + winCalls["unknown"]

RateCall(ip) ==
  /\ OpenCalls < MaxCalls
  /\ LET r == checkPairingApiRateLimit(pairingApiRate, ip, now)
     IN /\ pairingApiRate' = r.rate
        /\ lastRate' = [lastRate EXCEPT ![ip] = [ok |-> r.ok, retryAfterSec |-> r.retryAfterSec]]
  /\ ObserveWindow(ip)
  /\ UNCHANGED <<now, runtime, apiVars>>
  /\ UNCHANGED restOfApi

NextRate == Tick \/ \E ip \in IPs : RateCall(ip)

SpecRate == Init /\ [][NextRate]_vars

----------------------------------------------------------------------------
(***************************************************************************)
(* handlePairingApiMulti                                                   *)
(***************************************************************************)
\* slots are interchangeable: the second is taken only while the first is busy
SlotFree(r) == api[r].pc = "idle" /\ \A q \in ApiReqs : q < r => api[q].pc # "idle"

Respond(r, st) == [api EXCEPT ![r].pc = "done", ![r].status = st]

\* mutant: the limiter is not consulted when the request arrives
ApiArriveUnlimited(r, ip) ==
  /\ SlotFree(r)
  /\ ObserveWindow(ip)
  /\ api' = [api EXCEPT ![r].pc = "reading", ![r].nth = winCalls'[ip]]
  /\ UNCHANGED <<now, pairingApiRate, lastRate, envPairingToken, runtime,
                 pendingApprovals, issuedCodes, usedCodes, allowFrom>>
  /\ UNCHANGED restOfApi

\* a request arrives from address ip: the limiter is called, and a refused request
\* is answered at once; otherwise the handler starts to read the body
ApiArrive(r, ip) ==
  /\ SlotFree(r)
  /\ ObserveWindow(ip)
  /\ LET rate == checkPairingApiRateLimit(pairingApiRate, ip, now)
     IN /\ pairingApiRate' = rate.rate
        /\ lastRate' = [lastRate EXCEPT ![ip] = [ok |-> rate.ok, retryAfterSec |-> rate.retryAfterSec]]
        /\ api' = IF rate.ok
                  THEN [api EXCEPT ![r].pc = "reading", ![r].nth = winCalls'[ip]]
                  ELSE [api EXCEPT ![r].pc = "done", ![r].status = 429,
                                   ![r].nth = winCalls'[ip],
                                   ![r].rateOk = FALSE, ![r].rateRetry = rate.retryAfterSec,
                                   ![r].retryAfterHdr = rate.retryAfterSec]
  /\ UNCHANGED <<now, envPairingToken, runtime, pendingApprovals, issuedCodes,
                 usedCodes, allowFrom>>
  /\ UNCHANGED restOfApi

\* the body has been read (or reading failed): everything up to the start of the
\* approval command
ApiBody(r, kind, token, rawCode) ==
  /\ api[r].pc = "reading"
  /\ LET resolved == IF token # EmptyStr
                     THEN findAccountByToken(ApiAccounts, token)
                     ELSE [account |-> "none", anyConfigured |-> AnyConfigured(ApiAccounts)]
         code == ToUpperCase(Trim(rawCode))
         read == [api EXCEPT ![r].bodyRead = TRUE]
         parsed == [read EXCEPT ![r].jsonOk = TRUE, ![r].tokenGiven = (token # EmptyStr),
                                ![r].tokenIsExpected = (token = getPairingApiToken),
                                ![r].tokenCompared = (token # EmptyStr),
                                ![r].matched = resolved.account]
     IN api' =
          CASE kind = "tooLarge" -> Respond(r, 413)
            [] kind = "readError" -> Respond(r, 400)
            [] kind = "notJson" -> [read EXCEPT ![r].pc = "done", ![r].status = 400]
            [] kind = "jsonNull" -> [read EXCEPT ![r].pc = "done", ![r].status = 500]
            [] OTHER ->
               IF ~resolved.anyConfigured
               THEN [parsed EXCEPT ![r].pc = "done", ![r].status = 404]
               ELSE IF token = EmptyStr \/ resolved.account = "none"
               THEN [parsed EXCEPT ![r].pc = "done", ![r].status = 401]
               ELSE IF rawCode = EmptyStr
               THEN [parsed EXCEPT ![r].pc = "done", ![r].status = 400]
               ELSE IF runtime # "full"
               THEN [parsed EXCEPT ![r].pc = "done", ![r].status = 501]
               ELSE IF code = EmptyStr
               THEN [parsed EXCEPT ![r].pc = "done", ![r].status = 400]
               ELSE [parsed EXCEPT ![r].pc = "running", ![r].code = code]
  /\ UNCHANGED <<now, runtime, rateVars, envPairingToken, pendingApprovals,
                 issuedCodes, usedCodes, allowFrom>>
  /\ UNCHANGED restOfApi

\* the approval command, "openclaw pairing approve --channel wemp <code> --notify",
\* ends and the handler answers.  The command exits 0 and prints the approved
\* sender for a pending code, exits 1 for any other code, or is killed by the 15 s
\* timeout (exit code null), or cannot be started (the call throws).
ApiCommand(r, outcome) ==
  /\ api[r].pc = "running"
  /\ LET code == api[r].code
         known == code \in PairCodes
         subj == IF known THEN pendingApprovals[code] ELSE NoSubject
         pending == subj # NoSubject
         exitNull == outcome = "killed"
         exitCode == IF pending THEN 0 ELSE 1
         stdoutId == IF outcome = "exit" /\ pending THEN SubjectId(subj) ELSE EmptyStr
         ran == [api EXCEPT ![r].ranCmd = TRUE, ![r].wasPending = pending,
                            ![r].cmdEnded = outcome,
                            ![r].wasUsed = (code \in usedCodes), ![r].boundTo = subj]
     IN /\ api' =
             IF outcome = "threw"
             THEN [ran EXCEPT ![r].pc = "done", ![r].status = 500]
             ELSE IF ~exitNull /\ exitCode # 0
             THEN [ran EXCEPT ![r].pc = "done", ![r].status = 400]
             ELSE [ran EXCEPT ![r].pc = "done", ![r].status = 200,
                              ![r].replied = IF stdoutId # EmptyStr
                                             THEN parseSubjectId(stdoutId) ELSE NoSubject]
        /\ IF outcome = "exit" /\ pending
           THEN /\ pendingApprovals' = [pendingApprovals EXCEPT ![code] = NoSubject]
                /\ usedCodes' = usedCodes \cup {code}
                /\ allowFrom' = allowFrom \cup {subj}
           ELSE UNCHANGED <<pendingApprovals, usedCodes, allowFrom>>
  /\ UNCHANGED <<now, runtime, rateVars, envPairingToken, issuedCodes>>
  /\ UNCHANGED restOfApi

\* the response has been sent; the slot serves the next request
ApiRecycle(r) ==
  /\ api[r].pc = "done"
  /\ api' = [api EXCEPT ![r] = IdleApi]
  /\ UNCHANGED <<now, runtime, rateVars, envPairingToken, pendingApprovals,
                 issuedCodes, usedCodes, allowFrom>>
  /\ UNCHANGED restOfApi

\* a subject asks for pairing: the runtime issues a fresh code
EnvRequestPairing(c, subj) ==
  /\ c \notin issuedCodes
  /\ Cardinality(issuedCodes) < MaxIssued
  /\ pendingApprovals' = [pendingApprovals EXCEPT ![c] = subj]
  /\ issuedCodes' = issuedCodes \cup {c}
  /\ UNCHANGED <<now, runtime, rateVars, envPairingToken, api, usedCodes, allowFrom>>
  /\ UNCHANGED restOfApi

\* a pending code expires in the runtime's store
EnvExpire(c) ==
  /\ pendingApprovals[c] # NoSubject
  /\ pendingApprovals' = [pendingApprovals EXCEPT ![c] = NoSubject]
  /\ UNCHANGED <<now, runtime, rateVars, envPairingToken, api, issuedCodes,
                 usedCodes, allowFrom>>
  /\ UNCHANGED restOfApi

\* two requests in flight, the requests of one burst: the clock does not advance
ApiStarting == \A ip \in IPs : winCalls[ip] = 0

NextPairApi ==
  \/ \E rt \in Runtimes : ApiStarting /\ runtime = "null" /\ setWechatMpRuntime(rt)
  \/ \E t \in EnvTokens : ApiStarting /\ EnvSetToken(t)
  \/ \E r \in ApiReqs, ip \in IPs : winCalls[ip] < MaxApiCalls /\ ApiArrive(r, ip)
  \/ \E r \in ApiReqs, b \in Bodies : ApiBody(r, b.kind, b.token, b.code)
  \/ \E r \in ApiReqs, outcome \in CmdOutcomes : ApiCommand(r, outcome)
  \/ \E r \in ApiReqs : ApiRecycle(r)
  \/ \E c \in PairCodes, subj \in Subjects : EnvRequestPairing(c, subj)
  \/ \E c \in PairCodes : EnvExpire(c)

SpecPairApi == Init /\ [][NextPairApi]_vars

\* one request at a time, up to the limit of a window and into the next window;
\* no pairing code is pending
NextApiRate ==
  \/ \E rt \in Runtimes : ApiStarting /\ runtime = "null" /\ setWechatMpRuntime(rt)
  \/ \E t \in EnvTokens : ApiStarting /\ EnvSetToken(t)
  \/ now + RateWindowMs + 1 <= MaxNow /\ Advance(RateWindowMs + 1)
  \/ \E ip \in IPs :
       winCalls[ip] < (IF ip = "unknown" THEN MaxOtherCalls ELSE MaxCalls) /\ ApiArrive(1, ip)
  \/ \E b \in Bodies : ApiBody(1, b.kind, b.token, b.code)
  \/ \E outcome \in CmdOutcomes : ApiCommand(1, outcome)
  \/ ApiRecycle(1)

SpecApiRate == Init /\ [][NextApiRate]_vars

----------------------------------------------------------------------------
(***************************************************************************)
(* The webhook: handleWechatMpWebhookRequest, handleRequest, handleMessage *)
(***************************************************************************)
\* res.statusCode = st; res.end(text)
WhEnd(rec, st, text) ==
  [rec EXCEPT !.status = st, !.body = text, !.writes = @ + 1, !.handled = TRUE]

RECURSIVE FirstAccepted(_, _, _)
FirstAccepted(targets, accepts, i) ==
  IF i > Len(targets) THEN 0
  ELSE IF accepts[targets[i]] THEN i
  ELSE FirstAccepted(targets, accepts, i + 1)

\* a request arrives.  Without a target for the path it is not handled; a GET is
\* answered at once; a POST goes on to read its body; any other method gets 405
WhArrive(r, method, sigs) ==
  /\ wh[r].pc = "new"
  /\ \A q \in WhReqs : q < r => wh[q].pc # "new"
  /\ LET targets == Reverse(webhookTargets)
         rec == [wh[r] EXCEPT !.method = method]
         sel == FirstAccepted(targets, sigs, 1)
     IN wh' = [wh EXCEPT ![r] =
          IF targets = <<>> THEN [rec EXCEPT !.pc = "end"]
          ELSE IF method = "GET"
          THEN IF sel = 0
               THEN [WhEnd(rec, 403, ErrorTextVerify) EXCEPT !.pc = "end"]
               ELSE [WhEnd(rec, 200, "echostr") EXCEPT !.pc = "end", !.account = targets[sel]]
          ELSE IF method = "POST" THEN [rec EXCEPT !.pc = "reading"]
          ELSE [WhEnd(rec, 405, "Method Not Allowed") EXCEPT !.pc = "end"]]
  /\ UNCHANGED <<runtime, webhookTargets, immediateQ, processingMessages, dedupTimers,
                 pendingImages, aiDisabledHintLastSentAt>>
  /\ UNCHANGED <<now, restOfWh>>

\* mutant: the message is handed to handleMessage and the response is left unwritten
WhBodyNoResponse(r, read, outcome, msg) ==
  /\ wh[r].pc = "reading"
  /\ read = "ok"
  /\ LET targets == Reverse(webhookTargets)
         sel == FirstAccepted(targets, [a \in DOMAIN outcome |-> outcome[a] = "ok"], 1)
     IN /\ sel # 0
        /\ wh' = [wh EXCEPT ![r] = [@ EXCEPT !.pc = "queued", !.account = targets[sel],
                                             !.msg = msg]]
        /\ immediateQ' = Append(immediateQ, r)
  /\ UNCHANGED <<runtime, webhookTargets, processingMessages, dedupTimers,
                 pendingImages, aiDisabledHintLastSentAt>>
  /\ UNCHANGED <<now, restOfWh>>

\* the body of a POST has been read (or reading failed): the candidates are tried
\* most recently registered first, the response is written, and for an accepted
\* message handleMessage is scheduled with setImmediate
WhBody(r, read, outcome, msg) ==
  /\ wh[r].pc = "reading"
  /\ LET targets == Reverse(webhookTargets)
         sel == FirstAccepted(targets, [a \in DOMAIN outcome |-> outcome[a] = "ok"], 1)
         tried == IF sel = 0 THEN targets ELSE SubSeq(targets, 1, sel)
         rec == [wh[r] EXCEPT !.attempts = [i \in 1..Len(tried) |-> outcome[tried[i]]]]
         \* parsed is assigned only for an accepted attempt
         errorText == ErrorTextRejected
     IN IF read # "ok"
        THEN /\ wh' = [wh EXCEPT ![r] =
                  [WhEnd(wh[r], IF read = "tooLarge" THEN 413 ELSE 400, "Bad Request")
                     EXCEPT !.pc = "end"]]
             /\ UNCHANGED immediateQ
        ELSE IF sel = 0
        THEN /\ wh' = [wh EXCEPT ![r] =
                  [WhEnd(rec, IF IncludesVerifyFailed(errorText) THEN 403 ELSE 400, errorText)
                     EXCEPT !.pc = "end"]]
             /\ UNCHANGED immediateQ
        ELSE /\ wh' = [wh EXCEPT ![r] =
                  [WhEnd(rec, 200, "success") EXCEPT !.pc = "queued",
                                                     !.account = targets[sel], !.msg = msg]]
             /\ immediateQ' = Append(immediateQ, r)
  /\ UNCHANGED <<runtime, webhookTargets, processingMessages, dedupTimers,
                 pendingImages, aiDisabledHintLastSentAt>>
  /\ UNCHANGED <<now, restOfWh>>

\* mutant: no dedup check, every delivery is recorded and proceeds
HmBeginNoDedup ==
  /\ immediateQ # <<>>
  /\ LET r == Head(immediateQ)
         key == msgKey(wh[r].account, wh[r].msg)
     IN /\ runtime # "null"
        /\ wh' = [wh EXCEPT ![r] = [@ EXCEPT !.pc = "handling", !.key = key,
                                             !.sawTimer = \E t \in dedupTimers : t.key = key,
                                             !.proceeded = TRUE]]
        /\ processingMessages' = processingMessages \cup {key}
        /\ dedupTimers' = dedupTimers \cup {[key |-> key, due |-> now + MESSAGE_DEDUP_TIMEOUT_MS]}
  /\ immediateQ' = Tail(immediateQ)
  /\ UNCHANGED <<runtime, webhookTargets, pendingImages, aiDisabledHintLastSentAt>>
  /\ UNCHANGED <<now, restOfWh>>

\* mutant: the key of a delivery whose handling failed no longer counts
HmBeginRetryFailed ==
  /\ immediateQ # <<>>
  /\ LET r == Head(immediateQ)
         key == msgKey(wh[r].account, wh[r].msg)
         seen == [wh[r] EXCEPT !.key = key,
                               !.sawTimer = \E t \in dedupTimers : t.key = key]
     IN IF runtime = "null"
        THEN /\ wh' = [wh EXCEPT ![r] = [@ EXCEPT !.pc = "end", !.msg = NoMsg]]
             /\ UNCHANGED <<processingMessages, dedupTimers>>
        ELSE IF key \in processingMessages
                /\ ~\E q \in WhReqs : wh[q].failed /\ wh[q].key = key
        THEN /\ wh' = [wh EXCEPT ![r] = [seen EXCEPT !.pc = "end", !.msg = NoMsg]]
             /\ UNCHANGED <<processingMessages, dedupTimers>>
        ELSE /\ wh' = [wh EXCEPT ![r] = [seen EXCEPT !.pc = "handling", !.proceeded = TRUE]]
             /\ processingMessages' = processingMessages \cup {key}
             /\ dedupTimers' = dedupTimers \cup
                                 {[key |-> key, due |-> now + MESSAGE_DEDUP_TIMEOUT_MS]}
  /\ immediateQ' = Tail(immediateQ)
  /\ UNCHANGED <<runtime, webhookTargets, pendingImages, aiDisabledHintLastSentAt>>
  /\ UNCHANGED <<now, restOfWh>>

\* the setImmediate callback runs: handleMessage from its start to its first
\* await: the runtime check and the dedup check, insert and timer
HmBegin ==
  /\ immediateQ # <<>>
  /\ LET r == Head(immediateQ)
         key == msgKey(wh[r].account, wh[r].msg)
         seen == [wh[r] EXCEPT !.key = key,
                               !.sawTimer = \E t \in dedupTimers : t.key = key]
     IN IF runtime = "null"
        THEN /\ wh' = [wh EXCEPT ![r] = [@ EXCEPT !.pc = "end", !.msg = NoMsg]]
             /\ UNCHANGED <<processingMessages, dedupTimers>>
        ELSE IF key \in processingMessages
        THEN /\ wh' = [wh EXCEPT ![r] = [seen EXCEPT !.pc = "end", !.msg = NoMsg]]
             /\ UNCHANGED <<processingMessages, dedupTimers>>
        ELSE /\ wh' = [wh EXCEPT ![r] = [seen EXCEPT !.pc = "handling", !.proceeded = TRUE]]
             /\ processingMessages' = processingMessages \cup {key}
             /\ dedupTimers' = dedupTimers \cup
                                 {[key |-> key, due |-> now + MESSAGE_DEDUP_TIMEOUT_MS]}
  /\ immediateQ' = Tail(immediateQ)
  /\ UNCHANGED <<runtime, webhookTargets, pendingImages, aiDisabledHintLastSentAt>>
  /\ UNCHANGED <<now, restOfWh>>

\* the dedup timer of a key fires: processingMessages.delete(msgKey)
DedupTimerFire(t) ==
  /\ t \in dedupTimers
  /\ now >= t.due
  /\ dedupTimers' = dedupTimers \ {t}
  /\ processingMessages' = processingMessages \ {t.key}
  /\ UNCHANGED <<runtime, webhookTargets, wh, immediateQ, pendingImages,
                 aiDisabledHintLastSentAt>>
  /\ UNCHANGED <<now, restOfWh>>

\* mutant: the promise of handleMessage has no catch
CaughtNowhere(rec) == [rec EXCEPT !.failed = TRUE, !.escaped = TRUE]

\* handleMessage(...).catch((err) => logError(...)) in the setImmediate callback
Caught(rec) == [rec EXCEPT !.failed = TRUE, !.logged = TRUE]

\* handleMessage after the dedup check: events, text, image and voice messages.
\* What the collaborators answer is chosen here: handleSpecialCommand (command),
\* the stored AI-assistant state of the subject (stored), the throttle of the hint
\* (throttled),
\* downloadImageToFile (downloadOk), whether handleMenuClick sends (menuSends),
\* and whether the send or dispatch it awaits last is rejected (fails)
HmRun(r) ==
  /\ wh[r].pc = "handling"
  /\ LET msg == wh[r].msg
         subject == <<wh[r].account, msg.fromUserName>>
         \* isAiAssistantEnabled(account.accountId, openId) over the stored states
         aiEnabled(stored) == ~Falsy(isAiAssistantEnabled(AiDoc(stored), UserKey1).val)
         ends == [wh[r] EXCEPT !.pc = "end", !.msg = NoMsg]
         \* a branch that asked for the AI-assistant state and found stored
         asked(stored) == [ends EXCEPT !.aiState = stored]
         sent(rec, fails) == IF fails THEN Caught(rec) ELSE [rec EXCEPT !.sends = @ + 1]
         \* the pending image of the subject, taken when it is not yet expired
         imageFilePath == pendingImages[subject] # -1
                          /\ now - pendingImages[subject] < PENDING_IMAGE_TIMEOUT
         \* maybeSendAiDisabledHint
         Hint(rec) ==
           \E throttled \in BOOLEAN :
             IF aiDisabledHintLastSentAt[subject] # -1 /\ throttled
             THEN /\ wh' = [wh EXCEPT ![r] = rec]
                  /\ UNCHANGED <<pendingImages, aiDisabledHintLastSentAt>>
             ELSE /\ \E fails \in BOOLEAN : wh' = [wh EXCEPT ![r] = sent(rec, fails)]
                  /\ aiDisabledHintLastSentAt' =
                       [aiDisabledHintLastSentAt EXCEPT ![subject] = now]
                  /\ UNCHANGED pendingImages
         Nothing == wh' = [wh EXCEPT ![r] = ends]
                    /\ UNCHANGED <<pendingImages, aiDisabledHintLastSentAt>>
         Send(rec) == /\ \E fails \in BOOLEAN : wh' = [wh EXCEPT ![r] = sent(rec, fails)]
                      /\ UNCHANGED <<pendingImages, aiDisabledHintLastSentAt>>
         Dispatch(item) ==
           \E fails \in BOOLEAN :
             wh' = [wh EXCEPT ![r] = IF fails THEN Caught(item)
                                     ELSE [item EXCEPT !.dispatched = TRUE]]
     IN CASE msg.msgType = "event" ->
               \E menuSends \in BOOLEAN :
                 IF msg.event = "subscribe" \/ (msg.event = "CLICK" /\ menuSends)
                 THEN Send(ends) ELSE Nothing
          [] msg.msgType = "text" /\ msg.payload # EmptyStr ->
               \E command \in BOOLEAN :
                 IF command THEN Send(ends)
                 ELSE \E stored \in AiStored :
                   IF ~aiEnabled(stored) THEN Hint(asked(stored))
                   ELSE /\ Dispatch([asked(stored) EXCEPT !.attached = imageFilePath])
                        /\ pendingImages' = [pendingImages EXCEPT ![subject] = -1]
                        /\ UNCHANGED aiDisabledHintLastSentAt
          [] msg.msgType = "image" /\ msg.payload # EmptyStr ->
               \E stored \in AiStored, downloadOk \in BOOLEAN :
                 IF ~aiEnabled(stored) THEN Hint(asked(stored))
                 ELSE IF ~downloadOk
                 THEN Send([asked(stored) EXCEPT !.downloaded = TRUE])
                 ELSE /\ \E fails \in BOOLEAN :
                           wh' = [wh EXCEPT ![r] =
                                    sent([asked(stored) EXCEPT !.downloaded = TRUE], fails)]
                      /\ pendingImages' = [pendingImages EXCEPT ![subject] = now]
                      /\ UNCHANGED aiDisabledHintLastSentAt
          [] msg.msgType = "voice" /\ msg.payload # EmptyStr ->
               \E stored \in AiStored :
                 IF ~aiEnabled(stored) THEN Hint(asked(stored))
                 ELSE /\ Dispatch(asked(stored))
                      /\ UNCHANGED <<pendingImages, aiDisabledHintLastSentAt>>
          [] OTHER -> Nothing
  /\ UNCHANGED <<runtime, webhookTargets, immediateQ, processingMessages, dedupTimers>>
  /\ UNCHANGED <<now, restOfWh>>

\* the process starts (runtime set, accounts registered in StartOrder), then
\* requests arrive; the clock matters only while a dedup timer is pending
Starting == wh[1].pc = "new"

NextWebhook ==
  \/ \E rt \in Runtimes : Starting /\ runtime = "null" /\ setWechatMpRuntime(rt)
  \/ Starting /\ Len(webhookTargets) < Len(StartOrder)
       /\ registerWechatMpWebhookTarget(StartOrder[Len(webhookTargets) + 1])
  \/ (\E t \in dedupTimers : now < t.due) /\ Advance(MESSAGE_DEDUP_TIMEOUT_MS)
  \/ \E d \in ImageSteps :
       /\ \E sub \in WhSubjects :
            pendingImages[sub] # -1 /\ now < pendingImages[sub] + PENDING_IMAGE_TIMEOUT
       /\ Advance(d)
  \/ \E r \in WhReqs, method \in {"GET", "POST", "PUT"}, sigs \in [WhAccounts -> BOOLEAN] :
       WhArrive(r, method, sigs)
  \/ \E r \in WhReqs, b \in WhBodies : WhBody(r, b.read, b.outcome, b.msg)
  \/ HmBegin
  \/ \E t \in dedupTimers : DedupTimerFire(t)
  \/ \E r \in WhReqs : HmRun(r)

SpecWebhook == Init /\ [][NextWebhook]_vars

----------------------------------------------------------------------------
(***************************************************************************)
(* downloadImageToFile, downloadImageAsDataUrl and uploadTempMedia         *)
(***************************************************************************)
\* the upload endpoint uploadTempMedia posts the image bytes to
WeixinApi ==
  [form |-> "url", protocol |-> "https:",
   host |-> NameHost(<<"api", "weixin", "qq", "com">>)]

MediaEnd(ok) == [media EXCEPT !.pc = "done", !.success = ok]

\* the call up to its first await on the network: the downloads and the HTTP branch
\* of uploadTempMedia go through validateExternalUrl, which either decides at once
\* or awaits dns.lookup; a cached upload, a data: URL and a file path do not
MediaStart(op, src, cached, localOk) ==
  /\ media.pc = "idle"
  /\ LET rec == [media EXCEPT !.op = op, !.src = src]
         verdict == validateExternalUrl(src, <<>>)
     IN media' =
          IF op = "uploadTempMedia" /\ cached
          THEN [rec EXCEPT !.pc = "done", !.success = TRUE]
          ELSE IF op = "uploadTempMedia" /\ (src.form = "data" \/ isProbablyFilePath(src))
          THEN IF localOk THEN [rec EXCEPT !.pc = "upload"]
               ELSE [rec EXCEPT !.pc = "done", !.success = FALSE]
          ELSE IF NeedsDns(src) THEN [rec EXCEPT !.pc = "dns"]
          ELSE IF verdict = "ok" THEN [rec EXCEPT !.pc = "fetch", !.validated = verdict]
          ELSE [rec EXCEPT !.pc = "done", !.validated = verdict, !.success = FALSE]
  /\ UNCHANGED <<now, runtime, reading, restOfMedia>>

\* dns.lookup settles and validateExternalUrl finishes; the bracketed text of an
\* IPv6 literal is not a name any resolver answers, so its lookup throws
MediaDns(answer) ==
  /\ media.pc = "dns"
  /\ media.src.host.kind = "ip6" => answer = DnsThrows
  /\ LET verdict == validateExternalUrl(media.src, answer)
     IN media' = [media EXCEPT !.asked = TRUE, !.addrs = answer, !.validated = verdict,
                               !.pc = IF verdict = "ok" THEN "fetch" ELSE "done",
                               !.success = FALSE]
  /\ UNCHANGED <<now, runtime, reading, restOfMedia>>

\* safeFetch(url.toString(), ...) issues the request for the image
MediaFetch ==
  /\ media.pc = "fetch"
  /\ media' = [media EXCEPT !.fetched = Append(@, media.src), !.pc = "response"]
  /\ UNCHANGED <<now, runtime, reading, restOfMedia>>

\* the image response: fetch throws or times out, the status is not ok, the body
\* is over the limit, or the bytes arrive
MediaResponse(outcome) ==
  /\ media.pc = "response"
  /\ media' = IF outcome # "bytes" THEN MediaEnd(FALSE)
              ELSE IF media.op = "uploadTempMedia" THEN [media EXCEPT !.pc = "upload"]
              ELSE MediaEnd(TRUE)
  /\ UNCHANGED <<now, runtime, reading, restOfMedia>>

\* uploadTempMedia posts the bytes to the media/upload endpoint
MediaUpload(ok) ==
  /\ media.pc = "upload"
  /\ media' = [media EXCEPT !.fetched = Append(@, WeixinApi), !.pc = "done",
                            !.success = ok]
  /\ UNCHANGED <<now, runtime, reading, restOfMedia>>

\* the caller has the result; the next call starts afresh
MediaReturn ==
  /\ media.pc = "done"
  /\ media' = IdleMedia
  /\ UNCHANGED <<now, runtime, reading, restOfMedia>>

NextMedia ==
  \/ \E op \in MediaOps, src \in ImageSources, cached \in BOOLEAN, localOk \in BOOLEAN :
        MediaStart(op, src, cached, localOk)
  \/ \E answer \in DnsAnswers \cup {DnsThrows} : MediaDns(answer)
  \/ MediaFetch
  \/ \E outcome \in {"threw", "notOk", "tooLarge", "bytes"} : MediaResponse(outcome)
  \/ \E ok \in BOOLEAN : MediaUpload(ok)
  \/ MediaReturn

SpecMedia == Init /\ [][NextMedia]_vars

(***************************************************************************)
(* readResponseBytesWithLimit                                              *)
(***************************************************************************)
\* the call up to its first reader.read(): the Content-Length check, and the
\* branch for a response without a body stream, whose arrayBuffer has size bytes
ReadStart(maxBytes, contentLength, hasBody, size) ==
  /\ reading.pc = "idle"
  /\ LET rec == [reading EXCEPT !.maxBytes = maxBytes, !.contentLength = contentLength,
                           !.hasBody = hasBody]
     IN reading' =
          IF contentLength.given /\ contentLength.finite /\ contentLength.n > maxBytes
          THEN [rec EXCEPT !.pc = "threw"]
          ELSE IF ~hasBody
          THEN IF size > maxBytes THEN [rec EXCEPT !.pc = "threw"]
               ELSE [rec EXCEPT !.pc = "returned", !.out = size]
          ELSE [rec EXCEPT !.pc = "reading"]
  /\ UNCHANGED <<now, runtime, media, restOfMedia>>

\* mutant: the running total is compared only after the chunk has been kept
ReadChunkKeepFirst(res) ==
  /\ reading.pc = "reading"
  /\ LET rec == [reading EXCEPT !.reads = @ + 1]
     IN reading' =
          IF res.done
          THEN [rec EXCEPT !.pc = "returned", !.out = reading.total]
          ELSE IF ~res.defined THEN rec
          ELSE IF reading.total > reading.maxBytes
          THEN [rec EXCEPT !.total = @ + res.bytes, !.cancelled = TRUE, !.pc = "threw"]
          ELSE [rec EXCEPT !.total = @ + res.bytes, !.chunks = Append(@, res.bytes)]
  /\ UNCHANGED <<now, runtime, media, restOfMedia>>

\* one turn of the while loop: reader.read() resolves
ReadChunk(res) ==
  /\ reading.pc = "reading"
  /\ LET rec == [reading EXCEPT !.reads = @ + 1]
     IN reading' =
          IF res.done
          THEN [rec EXCEPT !.pc = "returned", !.out = reading.total]
          ELSE IF ~res.defined THEN rec
          ELSE IF reading.total + res.bytes > reading.maxBytes
          THEN [rec EXCEPT !.total = @ + res.bytes, !.cancelled = TRUE, !.pc = "threw"]
          ELSE [rec EXCEPT !.total = @ + res.bytes, !.chunks = Append(@, res.bytes)]
  /\ UNCHANGED <<now, runtime, media, restOfMedia>>

\* the caller has the bytes or the error; the next response is read afresh
ReadEnd ==
  /\ reading.pc \in {"returned", "threw"}
  /\ reading' = IdleRead
  /\ UNCHANGED <<now, runtime, media, restOfMedia>>

NextRead ==
  \/ \E maxBytes \in ByteLimits, contentLength \in ContentLengths, hasBody \in BOOLEAN,
        size \in 0..MaxBody : ReadStart(maxBytes, contentLength, hasBody, size)
  \/ \E res \in ReadResults :
        /\ reading.reads < MaxReads \/ res = ReadDone
        /\ ReadChunk(res)
  \/ ReadEnd

SpecRead == Init /\ [][NextRead]_vars

----------------------------------------------------------------------------
(***************************************************************************)
(* withFileLock                                                            *)
(***************************************************************************)
\* time passes for every process
LockTick(d) ==
  /\ now + d <= MaxLockNow
  /\ now' = now + d
  /\ UNCHANGED <<lockVars, restOfLock>>

\* a process calls withFileLock(filePath, fn, options)
LockCall(p, timeoutMs, staleMs) ==
  /\ locker[p].pc = "idle"
  /\ locker' = [locker EXCEPT ![p] =
       [IdleLocker EXCEPT !.pc = "open", !.timeoutMs = Max2(0, timeoutMs),
                          !.staleMs = Max2(MinStaleMs, staleMs), !.startedAt = now]]
  /\ UNCHANGED <<now, lockMarker, restOfLock>>

\* fs.openSync(lockPath, "wx"): creates the marker, or fails with EEXIST
LockOpen(p) ==
  /\ locker[p].pc = "open"
  /\ IF lockMarker.exists
     THEN /\ locker' = [locker EXCEPT ![p].pc = "stat"]
          /\ UNCHANGED lockMarker
     ELSE /\ lockMarker' = [exists |-> TRUE, mtime |-> now, owner |-> p]
          /\ locker' = [locker EXCEPT ![p].pc = "fn", ![p].ranFn = TRUE]
  /\ UNCHANGED <<now, restOfLock>>

\* mutant: a marker is never found stale
LockStatNeverStale(p) ==
  /\ locker[p].pc = "stat"
  /\ locker' = [locker EXCEPT ![p] =
       IF ~lockMarker.exists THEN [@ EXCEPT !.pc = "open"]
       ELSE [@ EXCEPT !.pc = "check"]]
  /\ UNCHANGED <<now, lockMarker, restOfLock>>

\* fs.statSync(lockPath) and the age test
LockStat(p) ==
  /\ locker[p].pc = "stat"
  /\ locker' = [locker EXCEPT ![p] =
       IF ~lockMarker.exists THEN [@ EXCEPT !.pc = "open"]
       ELSE IF now - lockMarker.mtime > @.staleMs
       THEN [@ EXCEPT !.pc = "unlink", !.sawStale = TRUE]
       ELSE [@ EXCEPT !.pc = "check"]]
  /\ UNCHANGED <<now, lockMarker, restOfLock>>

\* fs.unlinkSync(lockPath) of the marker found stale: it removes whatever marker
\* is at the path now; when there is none it throws and the caller goes on to wait
LockReclaim(p) ==
  /\ locker[p].pc = "unlink"
  /\ IF lockMarker.exists
     THEN /\ lockMarker' = NoMarker
          /\ locker' = [locker EXCEPT ![p].pc = "open", ![p].unlinked = TRUE]
     ELSE /\ locker' = [locker EXCEPT ![p].pc = "check"]
          /\ UNCHANGED lockMarker
  /\ UNCHANGED <<now, restOfLock>>

\* mutant: the waiter never gives up
LockCheckNoTimeout(p) ==
  /\ locker[p].pc = "check"
  /\ locker' = [locker EXCEPT ![p].pc = "sleep", ![p].checkedAt = now]
  /\ UNCHANGED <<now, lockMarker, restOfLock>>

\* the timeout test, then sleepSync(25)
LockCheck(p) ==
  /\ locker[p].pc = "check"
  /\ locker' = [locker EXCEPT ![p] =
       IF now - @.startedAt > @.timeoutMs
       THEN [@ EXCEPT !.pc = "timedOut", !.checkedAt = now]
       ELSE [@ EXCEPT !.pc = "sleep", !.checkedAt = now]]
  /\ UNCHANGED <<now, lockMarker, restOfLock>>

\* sleepSync(25) is over
LockWake(p) ==
  /\ locker[p].pc = "sleep"
  /\ now >= locker[p].checkedAt + LockSleepMs
  /\ locker' = [locker EXCEPT ![p].pc = "open"]
  /\ UNCHANGED <<now, lockMarker, restOfLock>>

\* mutant: the finally block leaves the marker where it is
LockReleaseKeepsMarker(p) ==
  /\ locker[p].pc = "fn"
  /\ \E fnEnded \in {"returned", "threw"} :
       locker' = [locker EXCEPT ![p].pc = "done", ![p].fnEnded = fnEnded,
                                ![p].outcome = fnEnded]
  /\ UNCHANGED <<now, lockMarker, restOfLock>>

\* fn returns or throws, and the finally block unlinks lockPath: whatever marker is
\* at the path is removed, and a failure of the unlink is ignored; withFileLock
\* then returns what fn returned or throws what fn threw
LockRelease(p) ==
  /\ locker[p].pc = "fn"
  /\ lockMarker' = NoMarker
  /\ \E fnEnded \in {"returned", "threw"} :
       locker' = [locker EXCEPT ![p].pc = "done",
                                ![p].unlinked = @ \/ lockMarker.exists,
                                ![p].fnEnded = fnEnded, ![p].outcome = fnEnded]
  /\ UNCHANGED <<now, restOfLock>>

\* the process is killed inside fn: its marker stays behind, and a new process
\* takes its place
LockCrash(p) ==
  /\ locker[p].pc = "fn"
  /\ locker' = [locker EXCEPT ![p] = IdleLocker]
  /\ lockMarker' = IF lockMarker.owner = p THEN [lockMarker EXCEPT !.owner = 0]
                   ELSE lockMarker
  /\ UNCHANGED <<now, restOfLock>>

\* the caller has the result or the timeout error
LockReturn(p) ==
  /\ locker[p].pc \in {"done", "timedOut"}
  /\ locker' = [locker EXCEPT ![p] = IdleLocker]
  /\ UNCHANGED <<now, lockMarker, restOfLock>>

\* the steps a process in withFileLock takes by itself
LockStep(p) ==
  \/ LockOpen(p) \/ LockStat(p) \/ LockReclaim(p) \/ LockCheck(p) \/ LockWake(p)
  \/ LockRelease(p) \/ LockReturn(p)

NextLock ==
  \/ \E d \in LockSteps :
        /\ d = LockSleepMs => now % (MinStaleMs + 1) < MaxPauses * LockSleepMs
        /\ LockTick(d)
  \/ \E p \in LockProcs, t \in TimeoutOptions, st \in StaleOptions : LockCall(p, t, st)
  \/ \E p \in LockProcs : LockStep(p)
  \/ \E p \in LockProcs : LockCrash(p)

SpecLock == Init /\ [][NextLock]_vars

\* a process inside withFileLock runs synchronous code: it keeps taking steps
SpecLockLive ==
  Init /\ [][NextLock]_vars /\ \A p \in LockProcs : WF_vars(LockStep(p))

(***************************************************************************)
(* The event loop of a process that calls withFileLock.  withFileLock has  *)
(* no await: from the call to its return or throw, sleepSync included      *)
(* (Atomics.wait, or a busy loop), it runs in one synchronous frame of the *)
(* process's only thread, and a callback that is ready runs only when the  *)
(* stack is empty.                                                         *)
(***************************************************************************)
LoopProcs == {1}

\* the thread of p runs no synchronous frame of withFileLock
ThreadFree(p) == locker[p].pc = "idle"

\* the I/O another request of p waits for completes: its callback is queued
ReqReady(p) ==
  /\ inflight[p] = "none"
  /\ inflight' = [inflight EXCEPT ![p] = "ready"]
  /\ UNCHANGED <<now, runtime, bodyIn, fetching, restOfIo>>

\* the event loop of p runs the callback
ReqRun(p) ==
  /\ inflight[p] = "ready"
  /\ ThreadFree(p)
  /\ inflight' = [inflight EXCEPT ![p] = "ran"]
  /\ UNCHANGED <<now, runtime, bodyIn, fetching, restOfIo>>

\* the request is answered
ReqDone(p) ==
  /\ inflight[p] = "ran"
  /\ inflight' = [inflight EXCEPT ![p] = "none"]
  /\ UNCHANGED <<now, runtime, bodyIn, fetching, restOfIo>>

NextLockLoop ==
  \/ NextLock
  \/ \E p \in LoopProcs : ReqReady(p)
  \/ \E p \in LoopProcs : ReqRun(p)
  \/ \E p \in LoopProcs : ReqDone(p)

SpecLockLoop == Init /\ [][NextLockLoop]_vars

----------------------------------------------------------------------------
(***************************************************************************)
(* The stores' mutators and readers: ai-assistant state, menu payloads,    *)
(* JsonStore and the pairing store                                         *)
(***************************************************************************)
\* the scenario's store is chosen
StoreOpen(kind) ==
  /\ storeKind = "none"
  /\ storeKind' = kind
  /\ UNCHANGED <<storeFile, storeCache, storeWriter, storeLog>>
  /\ UNCHANGED <<now, runtime, restOfStore>>

\* getStates / getStore / JsonStore.read / loadPairedUsers as a process makes it:
\* the cached document when the module has one, else the file's
StoreCurrent(p) ==
  IF storeKind \in CachedKinds /\ storeCache[p].loaded THEN storeCache[p].doc
  ELSE loadFromDisk(storeFile)

StoreReadsDisk(p) == ~(storeKind \in CachedKinds /\ storeCache[p].loaded)

\* a query: isAiAssistantEnabled, getMenuPayload, JsonStore.read, isPaired
StoreQuery(p) ==
  /\ storeKind # "none"
  /\ storeWriter[p].pc = "idle"
  /\ StoreReadsDisk(p)
  /\ storeCache' = IF storeKind \in CachedKinds
                   THEN [storeCache EXCEPT ![p] = [loaded |-> TRUE, doc |-> loadFromDisk(storeFile)]]
                   ELSE storeCache
  /\ storeLog' = [storeLog EXCEPT !.lastRead = storeFile.state]
  /\ UNCHANGED <<storeKind, storeFile, storeWriter>>
  /\ UNCHANGED <<now, runtime, restOfStore>>

\* enableAiAssistant, disableAiAssistant, toggleAiAssistant, upsertMenuPayload,
\* JsonStore.update, or a pairing: the mutator takes the current document and sets
\* one entry in it; no lock is taken
StoreMutate(p, key, op) ==
  /\ storeKind # "none"
  /\ storeWriter[p].pc = "idle"
  /\ storeLog.count < MaxMutations
  /\ LET current == StoreCurrent(p)
         val == IF op = "toggle" THEN (IF current[key] = "on" THEN "off" ELSE "on")
                ELSE IF op = "disable" THEN "off" ELSE "on"
         doc == [current EXCEPT ![key] = val]
     IN /\ storeWriter' = [storeWriter EXCEPT ![p] =
              [pc |-> "write", doc |-> doc, key |-> key, val |-> val, prev |-> current[key]]]
        /\ storeCache' = IF storeKind \in CachedKinds
                         THEN [storeCache EXCEPT ![p] = [loaded |-> TRUE, doc |-> doc]]
                         ELSE storeCache
        /\ storeLog' = [storeLog EXCEPT
              !.count = @ + 1,
              !.lastRead = IF StoreReadsDisk(p) THEN storeFile.state ELSE @]
  /\ UNCHANGED <<storeKind, storeFile>>
  /\ UNCHANGED <<now, runtime, restOfStore>>

\* fs.writeFileSync: of the temp file beside the target (saveStatesToDisk,
\* saveStoreToDisk, writeJsonFile), or of the target itself (savePairedUsers),
\* which is truncated when it is opened
StoreWrite(p) ==
  /\ storeWriter[p].pc = "write"
  /\ IF storeKind \in RenamedKinds
     THEN /\ storeWriter' = [storeWriter EXCEPT ![p].pc = "rename"]
          /\ UNCHANGED storeFile
     ELSE /\ storeFile' = CutFile
          /\ storeWriter' = [storeWriter EXCEPT ![p].pc = "fill"]
  /\ UNCHANGED <<storeKind, storeCache, storeLog>>
  /\ UNCHANGED <<now, runtime, restOfStore>>

\* fs.renameSync(tmp, file), or the end of the write in place: the file holds the
\* writer's document and the mutator returns
StoreCommit(p) ==
  /\ storeWriter[p].pc \in {"rename", "fill"}
  /\ storeFile' = WholeFile(storeWriter[p].doc)
  /\ storeLog' = [storeLog EXCEPT
        !.expected = [@ EXCEPT ![storeWriter[p].key] = storeWriter[p].val]]
  /\ storeWriter' = [storeWriter EXCEPT ![p] = IdleWriter]
  /\ UNCHANGED <<storeKind, storeCache>>
  /\ UNCHANGED <<now, runtime, restOfStore>>

NextStore ==
  \/ \E kind \in StoreKinds : StoreOpen(kind)
  \/ \E p \in StoreProcs : StoreQuery(p)
  \/ \E p \in StoreProcs, key \in StoreKeys, op \in {"enable", "disable", "toggle"} :
        StoreMutate(p, key, op)
  \/ \E p \in StoreProcs : StoreWrite(p)
  \/ \E p \in StoreProcs : StoreCommit(p)

SpecStore == Init /\ [][NextStore]_vars

\* fs.writeFileSync of the temp file, or fs.renameSync, throws (ENOSPC, EACCES):
\* the finally block removes the temp file, the target is as it was, and the
\* exception leaves the mutator; nothing restores the document in memory
StoreWriteFails(p) ==
  /\ storeWriter[p].pc \in {"write", "rename"}
  /\ storeWriter' = [storeWriter EXCEPT ![p] = IdleWriter]
  /\ storeFail' = [p |-> p, key |-> storeWriter[p].key, val |-> storeWriter[p].val,
                   prev |-> storeWriter[p].prev, at |-> storeLog.count]
  /\ UNCHANGED <<storeKind, storeFile, storeCache, storeLog>>
  /\ UNCHANGED <<now, runtime, ipCheck, hintCalls, hintSends, dl>>
  /\ UNCHANGED <<rateVars, apiVars, whVars, dbVars, prVars, mediaVars, lockVars,
                 jsonVars, regVars, ioVars>>

NextStoreFail ==
  \/ NextStore
  \/ \E p \in StoreProcs : StoreWriteFails(p)

SpecStoreFail == Init /\ [][NextStoreFail]_vars

----------------------------------------------------------------------------
(***************************************************************************)
(* JsonStore over one file, and the stores' loaders over what is on disk   *)
(***************************************************************************)
\* JsonStore.write(data)
JsonStoreWrite(p, data) ==
  /\ jsonCache' = [jsonCache EXCEPT ![p] = data]
  /\ jsonFile' = FileOf(JsonText(data))
  /\ jsonLog' = [written |-> data, writtenBy |-> p, read |-> NoRead]
  /\ UNCHANGED <<now, runtime, restOfJson>>

\* JsonStore.read(): the cache unless it is null, else readJsonFile, whose result
\* becomes the cache
JsonStoreRead(p) ==
  /\ LET cached == jsonCache[p] # JNull
         value == IF cached THEN jsonCache[p] ELSE readJsonFile(jsonFile, EmptyObject)
     IN /\ jsonCache' = [jsonCache EXCEPT ![p] = value]
        /\ jsonLog' = [jsonLog EXCEPT !.read =
             [by |-> p, loader |-> "jsonStore", fromDisk |-> ~cached, loaded |-> value,
              answer |-> value, threw |-> FALSE]]
  /\ UNCHANGED jsonFile
  /\ UNCHANGED <<now, runtime, restOfJson>>

\* clearCache(), or the process is replaced by a fresh one
JsonStoreClear(p) ==
  /\ jsonCache[p] # JNull
  /\ jsonCache' = [jsonCache EXCEPT ![p] = JNull]
  /\ UNCHANGED <<jsonFile, jsonLog>>
  /\ UNCHANGED <<now, runtime, restOfJson>>

\* the file is lost, damaged, or left by another version of the program
JsonDamage(file) ==
  /\ jsonFile # file
  /\ jsonFile' = file
  /\ jsonCache' = [p \in JsonProcs |-> JNull]
  /\ jsonLog' = [written |-> JUndefined, writtenBy |-> 0, read |-> NoRead]
  /\ UNCHANGED <<now, runtime, restOfJson>>

\* a fresh process asks isAiAssistantEnabled or getMenuPayload with the file as
\* its store's file
JsonQuery(p, loader) ==
  /\ jsonCache[p] = JNull
  /\ LET loaded == IF loader = "aiState" THEN loadStatesFromDisk(jsonFile)
                   ELSE loadStoreFromDisk(jsonFile)
         res == IF loader = "aiState" THEN isAiAssistantEnabled(loaded, UserKey1)
                ELSE getMenuPayload(loaded, <<"a">>, <<"i", "d">>)
     IN jsonLog' = [jsonLog EXCEPT !.read =
          [by |-> p, loader |-> loader, fromDisk |-> TRUE, loaded |-> loaded,
           answer |-> res.val, threw |-> res.threw]]
  /\ UNCHANGED <<jsonFile, jsonCache>>
  /\ UNCHANGED <<now, runtime, restOfJson>>

NextJson ==
  \/ \E p \in JsonProcs, data \in JsonDocs : JsonStoreWrite(p, data)
  \/ \E p \in JsonProcs : JsonStoreRead(p)
  \/ \E p \in JsonProcs : JsonStoreClear(p)
  \/ \E file \in DamagedFiles : JsonDamage(file)
  \/ \E p \in JsonProcs, loader \in {"aiState", "menuPayload"} : JsonQuery(p, loader)

SpecJson == Init /\ [][NextJson]_vars

----------------------------------------------------------------------------
(***************************************************************************)
(* registerWechatMpWebhookTarget, its unregister function, and the routing *)
(* of a request to a target                                                *)
(***************************************************************************)
\* normalizeWebhookPath applied to raw, and to its own result
NormalizeCall(raw) ==
  /\ normalized' = [raw |-> raw, once |-> normalizeWebhookPath(raw),
                    twice |-> normalizeWebhookPath(normalizeWebhookPath(raw))]
  /\ UNCHANGED <<regKind, registry, registered, lastRequest, lastUnregister>>
  /\ UNCHANGED <<now, runtime, restOfRegistry>>

NextPath == \E raw \in RawPaths : NormalizeCall(raw)

SpecPath == Init /\ [][NextPath]_vars

\* the process loads one of the two modules
RegOpen(kind) ==
  /\ regKind = "none"
  /\ regKind' = kind
  /\ UNCHANGED <<registry, registered, lastRequest, lastUnregister, normalized>>
  /\ UNCHANGED <<now, runtime, restOfRegistry>>

\* registerWechatMpWebhookTarget({account, path, cfg}): the target is a new object,
\* and the function returned closes over it and the key
RegRegister(path, account, cfg) ==
  /\ regKind # "none"
  /\ Len(registered) < MaxRegistrations
  /\ LET target == [id |-> Len(registered) + 1, account |-> account, cfg |-> cfg]
         key == IF regKind = "list" THEN normalizeWebhookPath(path) ELSE path
     IN /\ registry' = [registry EXCEPT ![key] =
                          IF regKind = "list" THEN Append(@, target) ELSE <<target>>]
        /\ registered' = Append(registered, [id |-> target.id, key |-> key, live |-> TRUE])
  /\ lastRequest' = NoRequest
  /\ lastUnregister' = NoUnregister
  /\ UNCHANGED <<regKind, normalized>>
  /\ UNCHANGED <<now, runtime, restOfRegistry>>

\* the unregister function of registration n is called
RegUnregister(n) ==
  /\ n \in 1..Len(registered)
  /\ LET key == registered[n].key
     IN registry' = [registry EXCEPT ![key] =
                       IF regKind = "list" THEN FilterOut(@, n) ELSE <<>>]
  /\ registered' = [registered EXCEPT ![n].live = FALSE]
  /\ lastUnregister' = [id |-> n, again |-> ~registered[n].live, before |-> registry]
  /\ lastRequest' = NoRequest
  /\ UNCHANGED <<regKind, normalized>>
  /\ UNCHANGED <<now, runtime, restOfRegistry>>

\* handleWechatMpWebhookRequest and handleRequest of part_002 for a GET or a POST
\* whose body was read: verifies says, per account, whether verifySignature (GET)
\* or processWechatMessage (POST) accepts the request with that account's token.
\* The observer holds one request: the next is routed after the registry changed
RegRequest(pathname, method, verifies, echostr) ==
  /\ regKind = "list"
  /\ lastRequest = NoRequest
  /\ method = "POST" => echostr = EmptyStr
  /\ LET resolved == resolveTargetsForPath(registry, normalizeWebhookPath(pathname))
         targets == Reverse(resolved.targets)
         sel == FirstVerified(targets, verifies, 1)
         req == [NoRequest EXCEPT !.pathname = pathname, !.method = method,
                                  !.verifies = verifies, !.echostr = echostr]
         answered == [req EXCEPT !.handled = TRUE, !.key = resolved.key,
                                 !.tried = IF sel = 0 THEN targets
                                           ELSE SubSeq(targets, 1, sel)]
     IN lastRequest' =
          IF ~resolved.found THEN req
          ELSE IF sel = 0
          THEN [answered EXCEPT !.status = 403, !.body = <<"verify failed">>]
          ELSE IF method = "GET"
          THEN [answered EXCEPT !.status = 200, !.body = echostr,
                                !.selected = targets[sel]]
          ELSE [answered EXCEPT !.status = 200, !.body = <<"success">>,
                                !.selected = targets[sel],
                                !.handedAccount = targets[sel].account,
                                !.handedCfg = targets[sel].cfg]
  /\ lastUnregister' = NoUnregister
  /\ UNCHANGED <<regKind, registry, registered, normalized>>
  /\ UNCHANGED <<now, runtime, restOfRegistry>>

NextRegistry ==
  \/ \E kind \in RegKinds : RegOpen(kind)
  \/ \E path \in RegPaths, input \in RegInputs : RegRegister(path, input.account, input.cfg)
  \/ \E n \in 1..MaxRegistrations : RegUnregister(n)
  \/ \E pathname \in ReqPaths, method \in {"GET", "POST"},
        verifies \in [RegAccounts -> BOOLEAN], echostr \in Echostrs :
       RegRequest(pathname, method, verifies, echostr)

SpecRegistry == Init /\ [][NextRegistry]_vars

-----------------------------------------------------------------------------
(***************************************************************************)
(* Outbound fetches (unnamed/part_005): safeFetch arms a timer that aborts *)
(* the request and clears it in its finally block, as soon as fetch has    *)
(* settled; the body is read afterwards.  createMenu, getMenu and          *)
(* deleteMenu call fetch directly.                                         *)
(***************************************************************************)
FetchVias == {"safeFetch", "fetch"}
FetchSteps == {2500, DEFAULT_FETCH_TIMEOUT_MS}

\* safeFetch(url, init, opts) up to its await, or a direct fetch(url, init)
FetchStart(via) ==
  /\ fetching.pc = "idle"
  /\ fetching' = [pc |-> "headers", via |-> via,
                  timeoutMs |-> DEFAULT_FETCH_TIMEOUT_MS, startedAt |-> now,
                  timer |-> (via = "safeFetch"), chunks |-> 0]
  /\ UNCHANGED <<now, runtime, bodyIn, inflight, restOfIo>>

\* the timer callback: controller.abort() rejects the pending fetch, and the
\* finally block clears the timer
FetchTimerFire ==
  /\ fetching.timer
  /\ now >= fetching.startedAt + fetching.timeoutMs
  /\ fetching' = [fetching EXCEPT !.pc = "aborted", !.timer = FALSE]
  /\ UNCHANGED <<now, runtime, bodyIn, inflight, restOfIo>>

\* fetch resolves with the response (status and headers); safeFetch returns it
\* through finally { clearTimeout(timer) }, and the caller starts to read the body
FetchHeaders ==
  /\ fetching.pc = "headers"
  /\ fetching' = [fetching EXCEPT !.pc = "body", !.timer = FALSE]
  /\ UNCHANGED <<now, runtime, bodyIn, inflight, restOfIo>>

\* fetch rejects by itself (network error)
FetchFail ==
  /\ fetching.pc = "headers"
  /\ fetching' = [fetching EXCEPT !.pc = "failed", !.timer = FALSE]
  /\ UNCHANGED <<now, runtime, bodyIn, inflight, restOfIo>>

\* the reader of the body (readResponseBytesWithLimit, response.json()) gets a chunk
FetchChunk ==
  /\ fetching.pc = "body"
  /\ fetching.chunks < MaxFetchChunks
  /\ fetching' = [fetching EXCEPT !.chunks = @ + 1]
  /\ UNCHANGED <<now, runtime, bodyIn, inflight, restOfIo>>

\* the body ends
FetchBodyEnd ==
  /\ fetching.pc = "body"
  /\ fetching' = [fetching EXCEPT !.pc = "done"]
  /\ UNCHANGED <<now, runtime, bodyIn, inflight, restOfIo>>

\* the caller has its result or its exception
FetchReturn ==
  /\ fetching.pc \in {"done", "aborted", "failed"}
  /\ fetching' = IdleFetch
  /\ UNCHANGED <<now, runtime, bodyIn, inflight, restOfIo>>

\* time passes; an armed timer fires when it is due
FetchTick(d) ==
  /\ now + d <= MaxFetchNow
  /\ fetching.timer => now + d <= fetching.startedAt + fetching.timeoutMs
  /\ now' = now + d
  /\ UNCHANGED <<runtime, ioVars, restOfIo>>

NextFetch ==
  \/ \E via \in FetchVias : FetchStart(via)
  \/ FetchTimerFire
  \/ FetchHeaders
  \/ FetchFail
  \/ FetchChunk
  \/ FetchBodyEnd
  \/ FetchReturn
  \/ \E d \in FetchSteps : FetchTick(d)

SpecFetch == Init /\ [][NextFetch]_vars

-----------------------------------------------------------------------------
(***************************************************************************)
(* readRequestBody (src/http.ts) and the two handlers that await it: the   *)
(* webhook POST (unnamed/part_002) and the pairing API (src/pairing.ts).   *)
(***************************************************************************)
BodyEndpoints == {"webhook", "pairing"}
BodySizes == {1, MAX_PAIRING_API_BODY_BYTES, MAX_WEBHOOK_BODY_BYTES}
BodyErrors == {"too large", "aborted"}

\* the handler reaches `await readRequestBody(req, <limit of the endpoint>)`
BodyStart(endpoint) ==
  /\ bodyIn.pc = "idle"
  /\ bodyIn' = [IdleBody EXCEPT
       !.pc = "reading", !.endpoint = endpoint, !.open = TRUE,
       !.maxBytes = IF endpoint = "webhook" THEN MAX_WEBHOOK_BODY_BYTES
                    ELSE MAX_PAIRING_API_BODY_BYTES]
  /\ UNCHANGED <<now, runtime, fetching, inflight, restOfIo>>

\* mutant: every chunk is kept, whatever the total
BodyDataUnchecked(size, destroyOk) ==
  /\ bodyIn.open
  /\ bodyIn.events < MaxBodyChunks
  /\ bodyIn' = [bodyIn EXCEPT !.total = @ + size, !.kept = @ + size, !.events = @ + 1]
  /\ UNCHANGED <<now, runtime, fetching, inflight, restOfIo>>

\* req.on("data"): the total grows first; over the limit the promise is rejected
\* (a settled promise stays as it is) and the request destroyed, a destroy that
\* throws being ignored; otherwise the chunk is kept
BodyData(size, destroyOk) ==
  /\ bodyIn.open
  /\ bodyIn.events < MaxBodyChunks
  /\ LET total == bodyIn.total + size IN
       IF total > bodyIn.maxBytes
       THEN bodyIn' = [bodyIn EXCEPT
              !.total = total, !.events = @ + 1,
              !.outcome = IF @ = "pending" THEN "too large" ELSE @,
              !.open = ~destroyOk]
       ELSE bodyIn' = [bodyIn EXCEPT
              !.total = total, !.events = @ + 1, !.kept = @ + size]
  /\ UNCHANGED <<now, runtime, fetching, inflight, restOfIo>>

\* req.on("end"): resolve with the chunks kept
BodyEnd ==
  /\ bodyIn.open
  /\ bodyIn' = [bodyIn EXCEPT
       !.open = FALSE,
       !.outcome = IF @ = "pending" THEN "resolved" ELSE @,
       !.resolvedLen = IF bodyIn.outcome = "pending" THEN bodyIn.kept ELSE @]
  /\ UNCHANGED <<now, runtime, fetching, inflight, restOfIo>>

\* req.on("error"): reject with the stream's error
BodyError(message) ==
  /\ bodyIn.open
  /\ bodyIn' = [bodyIn EXCEPT
       !.open = FALSE,
       !.outcome = IF @ = "pending" THEN message ELSE @]
  /\ UNCHANGED <<now, runtime, fetching, inflight, restOfIo>>

\* the handler resumes: a rejection is answered 413 when its text includes
\* "too large" and 400 otherwise; a body goes on to processWechatMessage, or to
\* JSON.parse and the token check
BodyContinue ==
  /\ bodyIn.pc = "reading"
  /\ bodyIn.outcome # "pending"
  /\ bodyIn' =
       IF bodyIn.outcome = "resolved"
       THEN [bodyIn EXCEPT !.pc = "processing", !.processed = TRUE]
       ELSE [bodyIn EXCEPT !.pc = "answered",
               !.status = IF bodyIn.outcome = "too large" THEN 413 ELSE 400]
  /\ UNCHANGED <<now, runtime, fetching, inflight, restOfIo>>

\* the request is over
BodyReturn ==
  /\ bodyIn.pc \in {"processing", "answered"}
  /\ bodyIn' = IdleBody
  /\ UNCHANGED <<now, runtime, fetching, inflight, restOfIo>>

NextBody ==
  \/ \E endpoint \in BodyEndpoints : BodyStart(endpoint)
  \/ \E size \in BodySizes, destroyOk \in BOOLEAN : BodyData(size, destroyOk)
  \/ BodyEnd
  \/ \E message \in BodyErrors : BodyError(message)
  \/ BodyContinue
  \/ BodyReturn

SpecBody == Init /\ [][NextBody]_vars

-----------------------------------------------------------------------------
(***************************************************************************)
(* isPrivateIp over addresses in the forms a caller can hand it            *)
(***************************************************************************)
Ip4A == {0, 1, 9, 10, 11, 99, 100, 101, 126, 127, 128, 168, 169, 170, 171, 172, 173,
         191, 192, 193, 223, 224, 255}
Ip4B == {0, 15, 16, 31, 32, 63, 64, 127, 128, 167, 168, 169, 253, 254, 255}
\* an input with the IPv4 address it embeds, if it is an IPv4-mapped IPv6 address:
\* ::ffff:a.b.c.d, the same address with its last 32 bits in hexadecimal
\* (::ffff:7f00:1 is ::ffff:127.0.0.1), and the form that is not compressed
IpInputs ==
  {[ip |-> V4(a, b), embedded |-> NoAddr] : a \in Ip4A, b \in Ip4B}
  \cup {[ip |-> V6(<<":", ":", "f", "f", "f", "f", ":">>, <<a, b>>), embedded |-> V4(a, b)] :
          a \in {8, 10, 127, 172}, b \in {0, 16}}
  \cup {[ip |-> V6(<<":", ":", "f", "f", "f", "f", ":", "7", "f", "0", "0", ":", "1">>, <<>>),
         embedded |-> V4(127, 0)],
        [ip |-> V6(<<":", ":", "f", "f", "f", "f", ":", "8", "0", "8", ":", "8", "0", "8">>, <<>>),
         embedded |-> V4(8, 8)],
        [ip |-> V6(<<"0", ":", "0", ":", "0", ":", "0", ":", "0", ":", "f", "f", "f", "f", ":">>,
                   <<10, 0>>),
         embedded |-> V4(10, 0)]}
  \cup {[ip |-> x, embedded |-> NoAddr] :
          x \in {Loopback6, Public6, UniqueLocal6, NoAddr,
                 [NoAddr EXCEPT !.text = <<"e", "x", ".", "c", "o", "m">>]}}

\* isPrivateIp(ip) is called and answers
IsPrivateIpCall(ip, embedded) ==
  /\ ipCheck' = [asked |-> TRUE, ip |-> ip, embedded |-> embedded,
                 answer |-> isPrivateIp(ip)]
  /\ UNCHANGED <<now, runtime, hintCalls, hintSends, storeFail, dl, restOfExt>>

NextIp == \E x \in IpInputs : IsPrivateIpCall(x.ip, x.embedded)

SpecIp == Init /\ [][NextIp]_vars

-----------------------------------------------------------------------------
(***************************************************************************)
(* downloadImageToFile: validateExternalUrl, then safeFetch with redirect: *)
(* "follow"; the addresses validated and the addresses fetch connects to   *)
(***************************************************************************)
MaxHops == 2
AddrsOf(answer) == {answer[i] : i \in 1..Len(answer)}

\* downloadImageToFile(imageUrl): validateExternalUrl up to its dns.lookup
DlStart(src) ==
  /\ dl.pc = "idle"
  /\ dl' = IF NeedsDns(src)
           THEN [IdleDl EXCEPT !.pc = "dns", !.src = src, !.host = src.host]
           ELSE IF validateExternalUrl(src, <<>>) = "ok"
           THEN [IdleDl EXCEPT !.pc = "connect", !.src = src, !.host = src.host,
                               !.accepted = {src.host.addr}]
           ELSE [IdleDl EXCEPT !.pc = "done", !.src = src]
  /\ UNCHANGED <<now, runtime, ipCheck, hintCalls, hintSends, storeFail, restOfExt>>

\* dns.lookup answers; validateExternalUrl examines every address of the answer
DlDns(answer) ==
  /\ dl.pc = "dns"
  /\ dl' = IF validateExternalUrl(dl.src, answer) = "ok"
           THEN [dl EXCEPT !.pc = "connect", !.accepted = AddrsOf(answer)]
           ELSE [dl EXCEPT !.pc = "done"]
  /\ UNCHANGED <<now, runtime, ipCheck, hintCalls, hintSends, storeFail, restOfExt>>

\* fetch(url.toString(), ...) connects: it is handed the URL, not the validated
\* addresses, so it resolves a domain name by itself
DlConnect(addr) ==
  /\ dl.pc = "connect"
  /\ dl.host.kind # "name" => addr = dl.host.addr
  /\ dl' = [dl EXCEPT !.pc = "response", !.contacted = @ \cup {addr}]
  /\ UNCHANGED <<now, runtime, ipCheck, hintCalls, hintSends, storeFail, restOfExt>>

\* the server answers 3xx with a Location: fetch follows it (redirect: "follow")
DlRedirect(host) ==
  /\ dl.pc = "response"
  /\ dl.hops < MaxHops
  /\ dl' = [dl EXCEPT !.pc = "connect", !.host = host, !.hops = @ + 1]
  /\ UNCHANGED <<now, runtime, ipCheck, hintCalls, hintSends, storeFail, restOfExt>>

\* the final response arrives (response.ok or not), or the connection fails
DlResponse(ok) ==
  /\ dl.pc = "response"
  /\ dl' = [dl EXCEPT !.pc = "done", !.success = ok]
  /\ UNCHANGED <<now, runtime, ipCheck, hintCalls, hintSends, storeFail, restOfExt>>

DlReturn ==
  /\ dl.pc = "done"
  /\ dl' = IdleDl
  /\ UNCHANGED <<now, runtime, ipCheck, hintCalls, hintSends, storeFail, restOfExt>>

NextDownload ==
  \/ \E src \in ImageSources : DlStart(src)
  \/ \E answer \in DnsAnswers \cup {DnsThrows} : DlDns(answer)
  \/ \E addr \in DnsAddrs \cup {Private10, UniqueLocal6} : DlConnect(addr)
  \/ \E host \in UrlHosts : DlRedirect(host)
  \/ \E ok \in BOOLEAN : DlResponse(ok)
  \/ DlReturn

SpecDownload == Init /\ [][NextDownload]_vars

-----------------------------------------------------------------------------
(***************************************************************************)
(* maybeSendAiDisabledHint, called from several handleMessage runs at once *)
(***************************************************************************)
\* the interval, imported from constants.js
AI_DISABLED_HINT_THROTTLE_MS == 60000
\* the values Date.now() takes in the scenario
HintTimes ==
  {1, AI_DISABLED_HINT_THROTTLE_MS - 1, AI_DISABLED_HINT_THROTTLE_MS,
   AI_DISABLED_HINT_THROTTLE_MS + 1, 2 * AI_DISABLED_HINT_THROTTLE_MS,
   2 * AI_DISABLED_HINT_THROTTLE_MS + 1}
restOfHint ==
  <<runtime, webhookTargets, wh, immediateQ, processingMessages, dedupTimers,
    pendingImages, rateVars, apiVars, dbVars, prVars, mediaVars, lockVars, storeVars,
    jsonVars, regVars, ioVars, ipCheck, storeFail, dl>>

\* mutant: the time of the send is not recorded before the send is awaited
HintBeginUnrecorded(c, subject, configured) ==
  /\ hintCalls[c].pc = "idle"
  /\ now > 0
  /\ LET last == aiDisabledHintLastSentAt[subject]
     IN IF ~configured
           \/ (last # -1 /\ last # 0 /\ now - last < AI_DISABLED_HINT_THROTTLE_MS)
        THEN /\ hintCalls' = [hintCalls EXCEPT ![c] =
                   [pc |-> "skipped", subject |-> subject, at |-> now]]
             /\ UNCHANGED <<aiDisabledHintLastSentAt, hintSends>>
        ELSE /\ hintCalls' = [hintCalls EXCEPT ![c] =
                   [pc |-> "sending", subject |-> subject, at |-> now]]
             /\ hintSends' = Append(hintSends, [subject |-> subject, at |-> now])
             /\ UNCHANGED aiDisabledHintLastSentAt
  /\ UNCHANGED <<now, restOfHint>>

\* maybeSendAiDisabledHint from its start to its await: it returns when no hint
\* text is configured or the subject's last hint is younger than the interval;
\* else it records the time and calls sendCustomMessage (Date.now() is positive)
HintBegin(c, subject, configured) ==
  /\ hintCalls[c].pc = "idle"
  /\ now > 0
  /\ LET last == aiDisabledHintLastSentAt[subject]
     IN IF ~configured
           \/ (last # -1 /\ last # 0 /\ now - last < AI_DISABLED_HINT_THROTTLE_MS)
        THEN /\ hintCalls' = [hintCalls EXCEPT ![c] =
                   [pc |-> "skipped", subject |-> subject, at |-> now]]
             /\ UNCHANGED <<aiDisabledHintLastSentAt, hintSends>>
        ELSE /\ aiDisabledHintLastSentAt' =
                   [aiDisabledHintLastSentAt EXCEPT ![subject] = now]
             /\ hintCalls' = [hintCalls EXCEPT ![c] =
                   [pc |-> "sending", subject |-> subject, at |-> now]]
             /\ hintSends' = Append(hintSends, [subject |-> subject, at |-> now])
  /\ UNCHANGED <<now, restOfHint>>

\* sendCustomMessage settles (it resolves, or rejects into the caller's catch)
\* and the call is over; a call that returned early is over too
HintEnd(c) ==
  /\ hintCalls[c].pc \in {"sending", "skipped"}
  /\ hintCalls' = [hintCalls EXCEPT ![c] = IdleHint]
  /\ UNCHANGED <<now, aiDisabledHintLastSentAt, hintSends, restOfHint>>

HintTick(t) ==
  /\ t > now
  /\ now' = t
  /\ UNCHANGED <<aiDisabledHintLastSentAt, hintCalls, hintSends, restOfHint>>

NextHint ==
  \/ \E c \in HintCalls, subject \in WhSubjects, configured \in BOOLEAN :
        HintBegin(c, subject, configured)
  \/ \E c \in HintCalls : HintEnd(c)
  \/ \E t \in HintTimes : HintTick(t)

SpecHint == Init /\ [][NextHint]_vars

----------------------------------------------------------------------------
(***************************************************************************)
(* dispatchInboundTextWithOptionalDebounce and the debouncer's flush       *)
(***************************************************************************)
\* the runtime's answer for the debounce interval changes (configuration)
SetDebounceMs(ms) ==
  /\ debounceMs # ms
  /\ debounceMs' = ms
  /\ UNCHANGED <<createDebouncer, inboundDebouncersByMs, debounceQ, lastOp>>
  /\ UNCHANGED <<now, runtime, restOfDb>>

\* the runtime gains or loses channel.debounce.createInboundDebouncer
SetCreateDebouncer(has) ==
  /\ createDebouncer # has
  /\ createDebouncer' = has
  /\ UNCHANGED <<debounceMs, inboundDebouncersByMs, debounceQ, lastOp>>
  /\ UNCHANGED <<now, runtime, restOfDb>>

\* one inbound item: dispatched at once, or enqueued in the debouncer of the
\* configured interval, which is created on first use
dispatchInboundTextWithOptionalDebounce(item) ==
  /\ IF \/ debounceMs = 0
        \/ ~createDebouncer
        \/ ~shouldDebounceInboundText(item.text, item.imageFilePath)
     THEN /\ lastOp' = [kind |-> "now", items |-> <<item>>,
                        dispatched |-> <<dispatchInboundTextNow(item)>>]
          /\ UNCHANGED <<inboundDebouncersByMs, debounceQ>>
     ELSE /\ inboundDebouncersByMs' = inboundDebouncersByMs \cup {debounceMs}
          /\ debounceQ' = [debounceQ EXCEPT ![buildKey(item)] = Append(@, item)]
          /\ lastOp' = [kind |-> "enqueue", items |-> <<item>>, dispatched |-> <<>>]
  /\ UNCHANGED <<debounceMs, createDebouncer>>
  /\ UNCHANGED <<now, runtime, restOfDb>>

\* the quiet period of a key is over: the debouncer hands the key's queued items,
\* in arrival order, to onFlush
DebounceFlush(k) ==
  /\ debounceQ[k] # <<>>
  /\ debounceQ' = [debounceQ EXCEPT ![k] = <<>>]
  /\ lastOp' = [kind |-> "flush", items |-> debounceQ[k], dispatched |-> onFlush(debounceQ[k])]
  /\ UNCHANGED <<debounceMs, createDebouncer, inboundDebouncersByMs>>
  /\ UNCHANGED <<now, runtime, restOfDb>>

Queued == Len(debounceQ[<<"acc1", "u1">>]) + Len(debounceQ[<<"acc1", "u2">>])

NextDebounce ==
  \/ \E ms \in DebounceMsValues : Queued = 0 /\ SetDebounceMs(ms)
  \/ \E has \in BOOLEAN : Queued = 0 /\ SetCreateDebouncer(has)
  \/ \E item \in DbItems : Queued < MaxQueued /\ dispatchInboundTextWithOptionalDebounce(item)
  \/ \E k \in DbKeys : DebounceFlush(k)

SpecDebounce == Init /\ [][NextDebounce]_vars

----------------------------------------------------------------------------
(***************************************************************************)
(* generatePairingCode, verifyPairingCode, unpair, and the opt-out overlay *)
(***************************************************************************)
\* generatePairingCode(accountId, openId); rnd is the value of crypto.randomInt
generatePairingCode(accountId, openId, rnd) ==
  /\ LET codes == loadPendingCodes(pendingCodesFile, now)
         own == {c \in FileCodes : codes[c] # NoPending /\ codes[c].accountId = accountId
                                     /\ codes[c].openId = openId}
     IN IF own # {}
        THEN /\ prResult' = CHOOSE c \in own : TRUE
             /\ UNCHANGED pendingCodesFile
        ELSE /\ pendingCodesFile' =
                  [codes EXCEPT ![rnd] = [accountId |-> accountId, openId |-> openId,
                                          createdAt |-> now]]
             /\ prResult' = rnd
  /\ UNCHANGED <<pairedUsersFile, optOut>>
  /\ UNCHANGED <<now, runtime, restOfPairing>>

\* verifyPairingCode(code, userId)
verifyPairingCode(code) ==
  /\ LET codes == loadPendingCodes(pendingCodesFile, now)
         info == codes[code]
         without == [codes EXCEPT ![code] = NoPending]
     IN IF info = NoPending
        THEN /\ prResult' = "null"
             /\ UNCHANGED <<pendingCodesFile, pairedUsersFile>>
        ELSE IF now - info.createdAt > CODE_EXPIRY_MS
        THEN /\ pendingCodesFile' = without
             /\ prResult' = "null"
             /\ UNCHANGED pairedUsersFile
        ELSE /\ pairedUsersFile' = loadPairedUsers \cup {<<info.accountId, info.openId>>}
             /\ pendingCodesFile' = without
             /\ prResult' = "paired"
  /\ UNCHANGED optOut
  /\ UNCHANGED <<now, runtime, restOfPairing>>

\* unpair(accountId, openId)
unpair(accountId, openId) ==
  /\ IF <<accountId, openId>> \in loadPairedUsers
     THEN /\ pairedUsersFile' = loadPairedUsers \ {<<accountId, openId>>}
          /\ prResult' = "true"
     ELSE /\ prResult' = "false"
          /\ UNCHANGED pairedUsersFile
  /\ UNCHANGED <<pendingCodesFile, optOut>>
  /\ UNCHANGED <<now, runtime, restOfPairing>>

\* setOptOut(accountId, openId, on): the subject enters or leaves the overlay
setOptOut(accountId, openId, on) ==
  /\ optOut' = IF on THEN optOut \cup {<<accountId, openId>>}
               ELSE optOut \ {<<accountId, openId>>}
  /\ optOut' # optOut
  /\ prResult' = "none"
  /\ UNCHANGED <<pairedUsersFile, pendingCodesFile>>
  /\ UNCHANGED <<now, runtime, restOfPairing>>

NextPairing ==
  \/ now + CODE_EXPIRY_MS \div 2 <= MaxPairNow /\ Advance(CODE_EXPIRY_MS \div 2)
  \/ \E s \in PrSubjects, rnd \in FileCodes : generatePairingCode(s[1], s[2], rnd)
  \/ \E c \in FileCodes : verifyPairingCode(c)
  \/ \E s \in PrSubjects : unpair(s[1], s[2])
  \/ \E s \in PrSubjects, on \in BOOLEAN : setOptOut(s[1], s[2], on)

SpecPairing == Init /\ [][NextPairing]_vars

----------------------------------------------------------------------------
\* of two deliveries with the same accountId, sender and msgId (createTime when
\* msgId is absent), the one handled while the dedup timer started by the other is
\* pending does not proceed: it ends at once, sends nothing and dispatches nothing
\* (first conjunct), and its handling step changes no state of the handler (second
\* conjunct); a delivery handled while no timer of its key is pending proceeds.
C1_SecondDropped ==
  \A r \in WhReqs :
    wh[r].key # NoKey =>
      /\ wh[r].sawTimer =>
           ~wh[r].proceeded /\ wh[r].pc = "end" /\ wh[r].sends = 0 /\ ~wh[r].dispatched
      /\ ~wh[r].sawTimer => wh[r].proceeded

C1_DropChangesNothing ==
  \A r \in WhReqs :
    (/\ wh[r].pc = "queued" /\ wh'[r].pc # "queued" /\ runtime # "null"
     /\ \E t \in dedupTimers : t.key = msgKey(wh[r].account, wh[r].msg)) =>
      UNCHANGED <<processingMessages, dedupTimers, pendingImages, aiDisabledHintLastSentAt,
                  webhookTargets, runtime, now>>

\* C1: in handleMessage a delivery handled while the dedup timer of its key
\* (accountId, openId, msgId or else createTime) is pending never proceeds, sends or
\* dispatches, and handling it changes no state; only the first delivery proceeds.
C1_Dedup == []C1_SecondDropped /\ [][C1_DropChangesNothing]_vars

\* a second delivery of a key has been dropped while the first was still being handled
C1_Witness ==
  \E r, q \in WhReqs :
    /\ r # q /\ wh[r].key # NoKey /\ wh[r].key = wh[q].key
    /\ wh[r].proceeded /\ wh[r].pc = "handling"
    /\ wh[q].sawTimer /\ ~wh[q].proceeded /\ wh[q].pc = "end"

\* C2: isPaired is false for every subject that is in the opt-out overlay, whatever
\* the paired-users store holds.
C2_OptOutWins == \A s \in optOut : ~isPaired(s[1], s[2])

\* C3: for a webhook POST that a candidate account accepted, from the moment its
\* message is scheduled for handleMessage, and so whenever it is being handled, has
\* sent or has been dispatched, the response is 200 "success" and has been written
\* exactly once; no request's response is ever written twice.
C3_RespondFirst ==
  \A r \in WhReqs :
    /\ wh[r].writes <= 1
    /\ ((wh[r].method = "POST" /\ wh[r].account # "")
          \/ wh[r].pc \in {"queued", "handling"} \/ wh[r].key # NoKey
          \/ wh[r].sends > 0 \/ wh[r].dispatched
          \/ \E i \in 1..Len(immediateQ) : immediateQ[i] = r) =>
         wh[r].status = 200 /\ wh[r].body = "success" /\ wh[r].writes = 1

\* a message has been dispatched after its request was answered 200 "success"
C3_Witness ==
  \E r \in WhReqs :
    wh[r].dispatched /\ wh[r].status = 200 /\ wh[r].body = "success" /\ wh[r].writes = 1

\* C4: a webhook POST that no candidate account accepts is answered 400 when the
\* candidates reject the body as a malformed payload and 403 when they reject it
\* for its signature.
C4_StatusByCause ==
  \A r \in WhReqs :
    (wh[r].method = "POST" /\ wh[r].pc = "end" /\ wh[r].account = ""
       /\ wh[r].attempts # <<>>) =>
      /\ (\A i \in 1..Len(wh[r].attempts) : wh[r].attempts[i] = "malformed") =>
           wh[r].status = 400
      /\ (\A i \in 1..Len(wh[r].attempts) : wh[r].attempts[i] = "authFailed") =>
           wh[r].status = 403

\* C5: within one 60 s window of one address, calls 1..30 of
\* checkPairingApiRateLimit return ok, and the 31st and every later call return
\* not-ok with retryAfterSec >= 1.
C5_RateLimit ==
  \A ip \in IPs :
    winCalls[ip] > 0 =>
      /\ (winCalls[ip] <= 30 => lastRate[ip].ok)
      /\ (winCalls[ip] >= 31 => ~lastRate[ip].ok /\ lastRate[ip].retryAfterSec >= 1)

\* the 31st call of a window has been refused, and so has a later one
C5_Witness ==
  \E ip \in IPs : winCalls[ip] = 32 /\ ~lastRate[ip].ok /\ lastRate[ip].retryAfterSec >= 1

\* C6: a pairing code is single-use.  Of the requests that passed the limiter with a
\* correct token and for which the approval command produced a result: one whose
\* code was pending is answered 200 with the accountId and openId the code was
\* bound to, and one whose code had already been approved is answered 400.
C6_SingleUse ==
  \A r \in ApiReqs :
    (api[r].pc = "done" /\ api[r].ranCmd /\ api[r].cmdEnded # "threw") =>
      /\ (api[r].wasPending => api[r].status = 200 /\ api[r].replied = api[r].boundTo)
      /\ (api[r].wasUsed => api[r].status = 400)

\* C7: when no pairing API token is explicitly configured, every request with a
\* well-formed JSON body is answered 404 and the approval command is never run.
C7_FailClosed ==
  \A r \in ApiReqs :
    (envPairingToken = EmptyStr /\ api[r].jsonOk) =>
      api[r].pc = "done" /\ api[r].status = 404 /\ ~api[r].ranCmd

C9_LimiterFirst ==
  /\ \A ip \in IPs : winCalls[ip] > 0 => pairingApiRate[ip].count = winCalls[ip]
  /\ \A r \in ApiReqs :
       api[r].pc # "idle" =>
         /\ (api[r].nth > RateMax) = ~api[r].rateOk
         /\ (api[r].status = 429) = ~api[r].rateOk
         /\ ~api[r].rateOk =>
              /\ api[r].pc = "done"
              /\ api[r].retryAfterHdr = api[r].rateRetry /\ api[r].rateRetry >= 1
              /\ ~api[r].bodyRead /\ ~api[r].tokenCompared /\ ~api[r].ranCmd

\* the 31st request of an address's window has been answered 429 with Retry-After
C9_Witness ==
  \E r \in ApiReqs, ip \in IPs :
    /\ api[r].pc = "done" /\ api[r].status = 429 /\ api[r].nth = RateMax + 1
    /\ api[r].retryAfterHdr >= 1 /\ ~api[r].bodyRead
    /\ winCalls[ip] = RateMax + 1 /\ pairingApiRate[ip].count = RateMax + 1

\* the text C10 expects of a flush: the trimmed texts that are not empty, in
\* arrival order, with a newline between neighbours
RECURSIVE C10_ExpectedText(_, _)
C10_ExpectedText(items, i) ==
  IF i > Len(items) THEN EmptyStr
  ELSE LET t == Trim(items[i].text)
           rest == C10_ExpectedText(items, i + 1)
       IN IF t = EmptyStr THEN rest
          ELSE IF rest = EmptyStr THEN t
          ELSE t \o <<"\n">> \o rest

\* C10: a flush of the items queued for one subject makes exactly one dispatch; its
\* text is the items' trimmed non-empty texts in arrival order joined by a newline,
\* and messageId, timestamp, agentId, paired and cfg are those of the last item.
C10_FlushOnce ==
  lastOp.kind = "flush" =>
    /\ Len(lastOp.dispatched) = 1
    /\ LET d == lastOp.dispatched[1]
           last == lastOp.items[Len(lastOp.items)]
       IN /\ d.text = C10_ExpectedText(lastOp.items, 1)
          /\ d.messageId = last.messageId /\ d.timestamp = last.timestamp
          /\ d.agentId = last.agentId /\ d.commandAuthorized = last.paired
          /\ d.cfg = last.cfg /\ d.account = last.account /\ d.openId = last.openId

\* texts "a" then " b " of one subject have been flushed as one dispatch "a\nb"
\* that carries the second item's messageId
C10_Witness ==
  /\ lastOp.kind = "flush" /\ Len(lastOp.items) = 2
  /\ lastOp.items[1].text = <<"a">> /\ lastOp.items[2].text = <<" ", "b", " ">>
  /\ lastOp.items[1].messageId = "m1" /\ lastOp.items[2].messageId = "m2"
  /\ Len(lastOp.dispatched) = 1
  /\ lastOp.dispatched[1].text = <<"a", "\n", "b">>
  /\ lastOp.dispatched[1].messageId = "m2"

\* C11: an item is enqueued in the debouncer only when its trimmed text is not
\* empty and does not start with "/", it carries no image, the debounce interval is
\* greater than 0 and the runtime has a debouncer factory; a command or an item with
\* an image is dispatched at once, unchanged, and every queue holds plain texts only.
C11_CommandsBypass ==
  /\ \A k \in DbKeys : \A i \in 1..Len(debounceQ[k]) :
        LET x == debounceQ[k][i]
        IN /\ x.imageFilePath = ""
           /\ Trim(x.text) # EmptyStr /\ Head(Trim(x.text)) # "/"
           /\ buildKey(x) = k
  /\ lastOp.kind = "enqueue" =>
        /\ debounceMs > 0 /\ createDebouncer
        /\ debounceMs \in inboundDebouncersByMs
  /\ lastOp.kind \in {"now", "enqueue"} =>
        LET x == lastOp.items[1]
            marked == \/ x.imageFilePath # ""
                      \/ (Trim(x.text) # EmptyStr /\ Head(Trim(x.text)) = "/")
        IN marked =>
             /\ lastOp.kind = "now"
             /\ lastOp.dispatched = <<dispatchInboundTextNow(x)>>

\* with debouncing on, " /x" has just been dispatched at once while a plain text
\* of the same subject waits in the queue
C11_Witness ==
  /\ debounceMs > 0 /\ createDebouncer
  /\ lastOp.kind = "now" /\ lastOp.items[1].text = <<" ", "/", "x">>
  /\ lastOp.items[1].imageFilePath = ""
  /\ Len(lastOp.dispatched) = 1 /\ lastOp.dispatched[1].text = <<" ", "/", "x">>
  /\ Len(debounceQ[buildKey(lastOp.items[1])]) = 1

\* a source C12 says must be rejected: its scheme is not http/https, its host is
\* localhost, *.localhost or *.local, its literal IP host is private, or one of
\* the addresses dns.lookup gave for it is private
C12_MustReject(src, asked, addrs) ==
  \/ src.protocol \notin {"http:", "https:"}
  \/ src.host.labels = <<"localhost">>
  \/ /\ Len(src.host.labels) >= 2
     /\ src.host.labels[Len(src.host.labels)] \in {"localhost", "local"}
  \/ src.host.kind \in {"ip4", "ip6"} /\ isPrivateIp(src.host.addr)
  \/ asked /\ addrs # DnsThrows /\ \E i \in 1..Len(addrs) : isPrivateIp(addrs[i])

C13_ByteCap ==
  /\ SumSeq(reading.chunks) <= reading.maxBytes
  /\ reading.pc = "returned" => reading.out >= 0 /\ reading.out <= reading.maxBytes
  /\ (reading.pc = "returned" /\ reading.hasBody) => reading.out = SumSeq(reading.chunks)
  /\ (reading.pc # "idle" /\ reading.contentLength.finite
        /\ reading.contentLength.n > reading.maxBytes) =>
        reading.pc = "threw" /\ reading.reads = 0 /\ reading.chunks = <<>>
  /\ reading.pc \in {"reading", "returned"} => reading.total <= reading.maxBytes /\ ~reading.cancelled
  /\ (reading.pc = "threw" /\ reading.reads > 0) =>
        /\ reading.cancelled /\ reading.total > reading.maxBytes
        /\ reading.total <= reading.maxBytes + MaxChunk

\* a response without Content-Length streams chunks of 3 and 1 bytes under a limit
\* of 4, then a further chunk takes the total over the limit: the reader is
\* cancelled and only the first 4 bytes were ever kept
C13_Witness ==
  /\ reading.pc = "threw" /\ reading.maxBytes = 4 /\ reading.contentLength = NoHeader
  /\ reading.chunks = <<3, 1>> /\ reading.cancelled /\ reading.total > 4 /\ reading.reads = 3

\* C14: at most one process is executing the fn it passed to withFileLock.
C14_MutualExclusion ==
  \A p \in LockProcs, q \in LockProcs :
    (locker[p].pc = "fn" /\ locker[q].pc = "fn") => p = q

\* the callers of withFileLock that are waiting for the marker to go away
C15_Waiting(p) == locker[p].pc \in {"stat", "unlink", "check", "sleep"}

\* C15: a caller that only ever found a fresh marker gives up with the timeout
\* error at the first timeout test made more than timeoutMs after it started, and
\* never pauses again after such a test; it has not run fn and has removed no marker.
C15_Timeout ==
  \A p \in LockProcs :
    /\ locker[p].pc = "sleep" => locker[p].checkedAt - locker[p].startedAt <= locker[p].timeoutMs
    /\ locker[p].pc = "timedOut" =>
          /\ locker[p].checkedAt - locker[p].startedAt > locker[p].timeoutMs
          /\ ~locker[p].ranFn
    /\ (~locker[p].sawStale /\ (C15_Waiting(p) \/ locker[p].pc = "timedOut")) =>
          ~locker[p].unlinked /\ ~locker[p].ranFn

\* process 2 called with timeoutMs 25 while process 1 held the lock, paused twice
\* and threw the timeout error at 50 ms; the holder's marker is still there
C15_Witness ==
  /\ locker[2].pc = "timedOut" /\ locker[2].timeoutMs = 25 /\ locker[2].startedAt = 0
  /\ locker[2].checkedAt = 50 /\ ~locker[2].sawStale /\ ~locker[2].ranFn
  /\ ~locker[2].unlinked
  /\ locker[1].pc = "fn" /\ lockMarker.exists /\ lockMarker.owner = 1

\* the marker was left behind by a process that is gone and is older than p's staleMs
C16_Abandoned(p) ==
  /\ lockMarker.exists /\ lockMarker.owner = 0
  /\ now - lockMarker.mtime > locker[p].staleMs

\* C16: when the marker is abandoned and older than staleMs while a caller is at
\* the top of its retry loop, a caller goes on to execute its fn: the marker does
\* not block the writers forever.
C16_StaleReclaimed ==
  \A p \in LockProcs :
    (C16_Abandoned(p) /\ locker[p].pc \in {"open", "stat"})
      ~> (\E q \in LockProcs : locker[q].pc = "fn")

\* a caller that found the abandoned marker stale has removed it and is in its fn
C16_Witness ==
  \E p \in LockProcs :
    /\ locker[p].pc = "fn" /\ locker[p].sawStale /\ locker[p].unlinked
    /\ lockMarker.exists /\ lockMarker.owner = p
    /\ \A q \in LockProcs \ {p} : locker[q].pc = "idle"

\* C17: once the writers of the AI-assistant state, the menu payloads or a JsonStore
\* have all returned, the persisted document holds every acknowledged mutation: no
\* writer's update is lost.
C17_NoLostUpdate ==
  (/\ storeKind \in {"aiState", "menuPayload", "jsonStore"}
   /\ \A p \in StoreProcs : storeWriter[p].pc = "idle"
   /\ storeLog.count > 0)
    => storeFile = WholeFile(storeLog.expected)

\* C18: no read of a store's file finds it cut short: a reader sees the whole
\* previous document or the whole new one (or no file yet).
C18_NoPartialRead == storeLog.lastRead # "cut"

\* C19: a read that follows JsonStore.write(d), made by the writing process or by
\* a process that loads the file from disk, yields d.
C19_RoundTrip ==
  (/\ jsonLog.writtenBy # 0 /\ jsonLog.read.by # 0
   /\ jsonLog.read.loader = "jsonStore"
   /\ (jsonLog.read.by = jsonLog.writtenBy \/ jsonLog.read.fromDisk))
    => /\ jsonLog.read.answer = jsonLog.written
       /\ JsonParse(jsonFile.text) = Parsed(jsonLog.written, Len(jsonFile.text))

\* process 1 wrote a document with nested arrays and process 2, with nothing
\* cached, has read the same document back from the file
C19_Witness ==
  /\ jsonLog.writtenBy = 1 /\ jsonLog.read.by = 2 /\ jsonLog.read.fromDisk
  /\ jsonLog.written = JArr(<<JArr(<<>>), EmptyObject, JArr(<<JBool(TRUE), JNum(2)>>)>>)
  /\ jsonLog.read.answer = jsonLog.written

\* whether the file holds a document the loader can take as it is
C20_WellFormed(file, loader) ==
  /\ file.exists /\ JsonParse(file.text).ok
  /\ LET d == JsonParse(file.text).val
     IN /\ d.t = "obj"
        /\ loader = "aiState" =>
             \A i \in 1..Len(d.items) :
               d.items[i].t = "obj"
               /\ GetProp(d.items[i], <<"e", "n", "a", "b", "l", "e", "d">>).t = "bool"
        /\ loader = "menuPayload" =>
             /\ GetProp(d, <<"v", "e", "r", "s", "i", "o", "n">>) = JNum(1)
             /\ GetProp(d, <<"a", "c", "c", "o", "u", "n", "t", "s">>).t = "obj"

C20_Default(loader) ==
  IF loader = "menuPayload" THEN MenuStore(1, EmptyObject) ELSE EmptyObject

\* C20: a read from disk never throws, and when the file is missing, is not JSON
\* or holds a document of the wrong version or shape, the loader yields the default
\* document and the query answers from it.
C20_ReadsNeverThrow ==
  (jsonLog.read.by # 0 /\ jsonLog.read.fromDisk) =>
    /\ ~jsonLog.read.threw
    /\ ~C20_WellFormed(jsonFile, jsonLog.read.loader) =>
         jsonLog.read.loaded = C20_Default(jsonLog.read.loader)
\* C30: the window is fixed.  A bucket's resetAt is the time of the window's first
\* call plus 60 s and its count the calls made in that window, whatever was
\* accepted or refused since; a call at now = resetAt still counts in the window,
\* and the first call with now > resetAt starts a bucket with count 1 and is accepted.
C30_FixedWindow ==
  \A ip \in IPs :
    winCalls[ip] > 0 =>
      /\ pairingApiRate[ip].resetAt = winStart[ip] + RateWindowMs
      /\ pairingApiRate[ip].count = winCalls[ip]
      /\ (winCalls[ip] = 1 => lastRate[ip].ok)

\* a call made at exactly now = resetAt was counted in the old window: it was
\* refused with retryAfterSec 1, which only a call within the window's last second
\* gets, and the bucket's resetAt is still the one set when the window opened
C30_Witness ==
  \E ip \in IPs :
    /\ now = pairingApiRate[ip].resetAt /\ now = winStart[ip] + RateWindowMs
    /\ ~lastRate[ip].ok /\ lastRate[ip].retryAfterSec = 1
    /\ pairingApiRate[ip].count = RateMax + 1
C27_TextConsumesImage ==
  [][\A r \in WhReqs :
       (/\ wh[r].pc = "handling" /\ wh'[r].pc = "end"
        /\ wh[r].msg.msgType = "text" /\ wh[r].msg.payload # EmptyStr) =>
         LET subject == <<wh[r].account, wh[r].msg.fromUserName>>
         IN /\ pendingImages'[subject] = -1
            /\ wh'[r].attached <=>
                 (/\ pendingImages[subject] # -1
                  /\ now - pendingImages[subject] < PENDING_IMAGE_TIMEOUT)]_vars
\* C21: a handled request is attributed to the most recently registered target of
\* the matched path whose account verifies it: a GET is answered 200 with the
\* echostr it brought, a POST hands its message to handleMessage with that target's
\* account and cfg, and the candidates tried are those registered after it and
\* itself, newest first.  If none verifies the answer is 403 and nothing is handed on.
C21_FirstVerifiedNewest ==
  lastRequest.handled =>
    LET regs == registry[lastRequest.key]
        verifying == {i \in 1..Len(regs) : lastRequest.verifies[regs[i].account]}
    IN IF verifying = {}
       THEN /\ lastRequest.status = 403 /\ lastRequest.selected = NoTarget
            /\ lastRequest.handedAccount = "" /\ lastRequest.tried = Reverse(regs)
       ELSE LET i == CHOOSE j \in verifying : \A k \in verifying : k <= j
            IN /\ lastRequest.selected = regs[i]
               /\ lastRequest.status = 200
               /\ lastRequest.tried = Reverse(SubSeq(regs, i, Len(regs)))
               /\ lastRequest.method = "GET" =>
                    lastRequest.body = lastRequest.echostr /\ lastRequest.handedAccount = ""
               /\ lastRequest.method = "POST" =>
                    /\ lastRequest.handedAccount = regs[i].account
                    /\ lastRequest.handedCfg = regs[i].cfg

\* three targets on one path, the newest of an account that does not verify the
\* request and the two older ones, with different cfg, of one that does: the POST
\* went to the second registration and its cfg after two attempts
C21_Witness ==
  /\ lastRequest.method = "POST" /\ lastRequest.status = 200
  /\ Len(registry[lastRequest.key]) = 3
  /\ lastRequest.selected.id = 2 /\ Len(lastRequest.tried) = 2
  /\ lastRequest.handedAccount = "acc1" /\ lastRequest.handedCfg = "cfg2"
  /\ registry[lastRequest.key][1].account = "acc1"

\* C22: a request is routed to the targets of its normalized path when that path
\* has targets, otherwise to those of the longest registered path, the root
\* included, that the request path equals or descends from; when there is none
\* the request is not handled and gets no response.
C22_LongestPrefix ==
  lastRequest.method # "" =>
    LET pathname == normalizeWebhookPath(lastRequest.pathname)
        Descends(K) ==
          \/ pathname = K
          \/ StartsWith(pathname, IF K = <<"/">> THEN K ELSE K \o <<"/">>)
        keys == {K \in DOMAIN registry : registry[K] # <<>> /\ Descends(K)}
    IN IF keys = {}
       THEN ~lastRequest.handled /\ lastRequest.status = 0 /\ lastRequest.body = EmptyStr
       ELSE /\ lastRequest.handled
            /\ lastRequest.key =
                 IF pathname \in keys THEN pathname
                 ELSE CHOOSE K \in keys : \A other \in keys : Len(other) <= Len(K)

\* C23: a first call of an unregister function removes its own registration and
\* nothing else, leaving every list in its order; a second call changes nothing.
C23_UnregisterExact ==
  lastUnregister.id # 0 =>
    \A key \in DOMAIN registry :
      registry[key] =
        IF lastUnregister.again THEN lastUnregister.before[key]
        ELSE FilterOut(lastUnregister.before[key], lastUnregister.id)

\* C29: normalizeWebhookPath yields a path that starts with "/" and ends with "/"
\* only when it is "/", and applying it again changes nothing.
C29_NormalizeIdempotent ==
  /\ StartsWith(normalized.once, <<"/">>)
  /\ EndsWith(normalized.once, <<"/">>) => normalized.once = <<"/">>
  /\ normalized.twice = normalized.once

\* C25: no outbound fetch stays pending, waiting for the response headers or
\* reading the response body, longer than its timeout after it started.
C25_FetchTimeout ==
  fetching.pc \in {"headers", "body"} =>
    now - fetching.startedAt <= DEFAULT_FETCH_TIMEOUT_MS

\* C24: readRequestBody never resolves with more than maxBytes, and resolves
\* with all it received; once the bytes received exceed the endpoint's limit
\* (1 MiB for the webhook, 32 KiB for the pairing API) the promise is rejected
\* as too large, the request is answered 413 and never processed.
C24_OversizeRejected ==
  /\ bodyIn.pc # "idle" =>
       bodyIn.maxBytes = IF bodyIn.endpoint = "webhook" THEN 1048576 ELSE 32768
  /\ bodyIn.outcome = "resolved" =>
       bodyIn.resolvedLen = bodyIn.total /\ bodyIn.total <= bodyIn.maxBytes
  /\ bodyIn.total > bodyIn.maxBytes =>
       /\ bodyIn.outcome = "too large"
       /\ ~bodyIn.processed
       /\ bodyIn.pc # "reading" => bodyIn.status = 413

\* a webhook POST of 1 MiB + 1 byte in two chunks has been answered 413
C24_Witness ==
  /\ bodyIn.endpoint = "webhook"
  /\ bodyIn.total = MAX_WEBHOOK_BODY_BYTES + 1
  /\ bodyIn.kept = MAX_WEBHOOK_BODY_BYTES
  /\ bodyIn.pc = "answered"
  /\ bodyIn.status = 413

\* C28: while a withFileLock caller sleeps between two polls of a contended
\* lock, a request of the same process that is ready can run.
C28_WaitCooperative ==
  \A p \in LoopProcs :
    (locker[p].pc = "sleep" /\ inflight[p] = "ready") => ENABLED ReqRun(p)

\* C31: a request whose approval command ran is answered 200 only when the
\* command exited with code 0: never when it exited with another code, and never
\* when it produced no exit code (killed by the 15 s timeout).
C31_SuccessNeedsExitZero ==
  \A r \in ApiReqs :
    (api[r].pc = "done" /\ api[r].ranCmd /\ api[r].status = 200) =>
      api[r].cmdEnded = "exit" /\ api[r].wasPending

\* C34: texts of one subject are dispatched in arrival order: an item is never
\* dispatched at once while an earlier item of the same subject still waits in
\* the debounce queue.
C34_ArrivalOrder ==
  lastOp.kind = "now" => debounceQ[buildKey(lastOp.items[1])] = <<>>

\* C35: a failure of the handling removes neither the dedup key nor its timer,
\* and a redelivery of a message whose first handling failed, handled while the
\* timer of the key is pending, is dropped: it does not proceed, send or dispatch.
C35_NoRetryAfterFailure ==
  [][\A r \in WhReqs :
       /\ (~wh[r].failed /\ wh'[r].failed) =>
            UNCHANGED <<processingMessages, dedupTimers>>
       /\ (/\ wh[r].pc = "queued" /\ wh'[r].pc # "queued" /\ runtime # "null"
           /\ \E q \in WhReqs :
                q # r /\ wh[q].failed /\ wh[q].key = msgKey(wh[r].account, wh[r].msg)
           /\ \E t \in dedupTimers : t.key = msgKey(wh[r].account, wh[r].msg)) =>
            /\ wh'[r].pc = "end" /\ ~wh'[r].proceeded
            /\ wh'[r].sends = 0 /\ ~wh'[r].dispatched]_vars

\* the handling of the first delivery failed and the redelivery was dropped
C35_Witness ==
  /\ wh[1].failed /\ wh[1].proceeded /\ wh[1].key # NoKey
  /\ wh[2].key = wh[1].key /\ wh[2].sawTimer
  /\ wh[2].pc = "end" /\ ~wh[2].proceeded /\ wh[2].sends = 0 /\ ~wh[2].dispatched

\* C36: a text, image or voice message is dispatched to the agent, and an image
\* is downloaded or stored as pending, only when the stored AI-assistant state of
\* its subject is enabled at the time the message is handled; a subject without
\* stored state counts as disabled.
C36_AiGate ==
  [][\A r \in WhReqs :
       /\ (wh'[r].dispatched \/ wh'[r].downloaded) => wh'[r].aiState = "on"
       /\ (wh[r].pc = "handling" /\ wh'[r].pc = "end") =>
            LET subject == <<wh[r].account, wh[r].msg.fromUserName>>
            IN (pendingImages'[subject] # -1 /\ pendingImages'[subject] # pendingImages[subject])
                 => wh'[r].aiState = "on"]_vars

\* a subject without stored state sent an image and got only the hint, and the
\* image of a subject with the assistant enabled was downloaded and stored
C36_Witness ==
  /\ wh[1].aiState = "none" /\ wh[1].pc = "end" /\ ~wh[1].downloaded /\ ~wh[1].dispatched
  /\ wh[1].sends = 1
  /\ wh[2].aiState = "on" /\ wh[2].downloaded /\ wh[2].pc = "end"
  /\ \E s \in WhSubjects : pendingImages[s] # -1

\* C39: pending pairing codes are unambiguous.  Each subject has at most one
\* unexpired code, and a call of generatePairingCode that writes a new code
\* leaves every unexpired code of the file bound to the subject it was bound to.
C39_CodesUnambiguous ==
  /\ [](\A s \in PrSubjects :
          Cardinality({c \in FileCodes :
             LET info == loadPendingCodes(pendingCodesFile, now)[c]
             IN info # NoPending /\ info.accountId = s[1] /\ info.openId = s[2]}) <= 1)
  /\ [][\A c \in FileCodes :
          LET before == loadPendingCodes(pendingCodesFile, now)[c]
          IN (/\ before # NoPending
              /\ prResult' \in FileCodes
              /\ pendingCodesFile' # pendingCodesFile) =>
               pendingCodesFile'[c] = before]_vars

\* C33: when the fn of a caller that acquired the lock finishes, returning or
\* throwing, no marker is left at the lock path and withFileLock returns or
\* rethrows accordingly; a caller that then tries the path while no marker is
\* there acquires the lock at that attempt.
C33_ReleasedAfterFn ==
  [][\A p \in LockProcs :
       /\ (locker[p].pc = "fn" /\ locker'[p].pc = "done") =>
            /\ ~lockMarker'.exists
            /\ locker'[p].ranFn
            /\ locker'[p].fnEnded \in {"returned", "threw"}
            /\ locker'[p].outcome = locker'[p].fnEnded
       /\ (locker[p].pc = "open" /\ locker'[p] # locker[p] /\ ~lockMarker.exists) =>
            /\ locker'[p].pc = "fn"
            /\ lockMarker'.exists /\ lockMarker'.owner = p]_vars

\* process 1 ran a fn that threw and removed its marker; process 2, which called
\* later and never had to wait, is in its fn and owns the marker
C33_Witness ==
  /\ locker[1].pc = "done" /\ locker[1].outcome = "threw" /\ locker[1].unlinked
  /\ locker[2].pc = "fn" /\ locker[2].startedAt > locker[1].startedAt
  /\ locker[2].checkedAt = 0 /\ ~locker[2].sawStale /\ ~locker[2].unlinked
  /\ lockMarker.exists /\ lockMarker.owner = 2 /\ lockMarker.mtime = locker[2].startedAt

\* the IPv4 address a.b.x.x lies in 0/8, 10/8, 127/8, 169.254/16, 172.16/12,
\* 192.168/16, 100.64/10, or is 224.0.0.0 or above (n holds its first 16 bits)
C32_InRanges(a, b) ==
  LET n == a * 256 + b
  IN \/ n \div 256 \in {0, 10, 127}
     \/ n = 169 * 256 + 254
     \/ n \div 16 = (172 * 256 + 16) \div 16
     \/ n = 192 * 256 + 168
     \/ n \div 64 = (100 * 256 + 64) \div 64
     \/ n >= 224 * 256

\* C32: isPrivateIp answers true exactly for the IPv4 addresses of the private
\* ranges, answers for an IPv4-mapped IPv6 address what it answers for the
\* embedded IPv4 address, and answers true for a string that is no IP address.
C32_PrivateRanges ==
  ipCheck.asked =>
    /\ ipCheck.ip.v = 4 => (ipCheck.answer <=> C32_InRanges(ipCheck.ip.a, ipCheck.ip.b))
    /\ ipCheck.embedded.v = 4 =>
         (ipCheck.answer <=> C32_InRanges(ipCheck.embedded.a, ipCheck.embedded.b))
    /\ ipCheck.ip.v = 0 => ipCheck.answer

\* C40: while an image URL is downloaded, every address that safeFetch contacts
\* (after redirects and after fetch's own DNS resolution too) is one that
\* validateExternalUrl examined and accepted, and none is private, loopback or
\* link-local.
C40_OnlyAcceptedContacted ==
  \A x \in dl.contacted : x \in dl.accepted /\ ~isPrivateIp(x)

\* C38: after a mutation whose file write threw, and before any later mutation, a
\* read in the same process does not return the value that never reached the
\* disk.
C38_FailedWriteNotVisible ==
  (/\ storeFail.p # 0
   /\ storeLog.count = storeFail.at
   /\ storeWriter[storeFail.p].pc = "idle"
   /\ storeFail.prev # storeFail.val
   /\ loadFromDisk(storeFile)[storeFail.key] # storeFail.val)
  => StoreCurrent(storeFail.p)[storeFail.key] # storeFail.val

\* C37: any two "AI disabled" hints sent to one subject are at least one throttle
\* interval apart, also with several calls for the subject in flight at once; and
\* while a send is awaited the subject's last-sent time is already recorded.
C37_OneHintPerInterval ==
  /\ \A i, j \in 1..Len(hintSends) :
        (i < j /\ hintSends[i].subject = hintSends[j].subject)
        => hintSends[j].at - hintSends[i].at >= AI_DISABLED_HINT_THROTTLE_MS
  /\ \A c \in HintCalls :
        hintCalls[c].pc = "sending"
        => /\ aiDisabledHintLastSentAt[hintCalls[c].subject] # -1
           /\ aiDisabledHintLastSentAt[hintCalls[c].subject] >= hintCalls[c].at

\* two calls for one subject at the same time: one is sending, the other returned
\* without sending
C37_Witness ==
  \E c1, c2 \in HintCalls :
    /\ c1 # c2
    /\ hintCalls[c1].pc = "sending"
    /\ hintCalls[c2].pc = "skipped"
    /\ hintCalls[c1].subject = hintCalls[c2].subject
    /\ hintCalls[c1].at = hintCalls[c2].at
    /\ aiDisabledHintLastSentAt[hintCalls[c1].subject] = hintCalls[c1].at

====
